---- MODULE Spec2Model ----
(***************************************************************************)
(* Agent Session Bridge (happy-cli, Kimi flavour).                         *)
(*                                                                         *)
(*   SpecSync : ApiSessionClient's versioned session state                 *)
(*              (updateMetadata / updateAgentState / update-session)       *)
(*              against the relay and the remote party.                    *)
(*   SpecSyncFair : the same with a relay that answers.                    *)
(*   SpecGate : KimiPermissionHandler.                                     *)
(*   SpecLoop : runKimi's main loop and its mode-change restart.           *)
(*   SpecBridge, SpecBridgeFair : runKimi with abort, exit, kill, session  *)
(*              swap and backend errors.                                   *)
(*   SpecInbox : ApiSessionClient's user-message inbox during start-up.    *)
(*   SpecHistory : ConversationHistory.                                    *)
(***************************************************************************)
EXTENDS Integers, Sequences, FiniteSets, TLC

\* ------------------------------------------------------------------------
\* Bounds of the model
\* ------------------------------------------------------------------------
\* updateMetadata/updateAgentState calls issued by the bridge (both groups)
MaxCalls == 2
\* writes of the remote party accepted by the relay (both groups)
MaxRemote == 2
\* writes of the bridge and of the remote party together
MaxWrites == 3

VARIABLES
    \* ---- ApiSessionClient fields (AgentBackend.ts 217-226) ----
    metadata, metadataVersion, agentState, agentStateVersion,
    \* calls waiting in metadataLock / agentStateLock, head = lock holder
    lockQueue,
    \* emitWithAck requests on their way to the relay, answers on their way back
    request, answer,
    \* ---- the relay and the remote party ----
    relay,        \* authoritative [value, version] per field-group
    relayLog,     \* per field-group, the value held at version v is relayLog[g][v+1]
    issued, remoteWrites,
    \* ---- KimiPermissionHandler (permissionHandler.ts 19-20) ----
    currentPermissionMode,
    pendingRequests,   \* callId -> the pending request (tool name, its promise)
    promises,          \* the promises handleToolCall returned for pending requests
    sessionState,      \* agentState as the handlers given to session.updateAgentState leave it
    toolCalls,         \* number of handleToolCall calls so far
    \* ---- runKimi (the Session Orchestrator) ----
    loop,                 \* the main loop's position and runKimi's local variables
    messageQueue,         \* MessageQueue2<KimiMode>: [message, mode, hash] items
    backends,             \* every Agent Backend constructed so far: [model, state]
    turnLog,              \* backend operations issued since the last dequeue
    conversationHistory,  \* ConversationHistory entries, oldest first
    userMessages,         \* number of user messages received so far
    ghost,                \* bookkeeping of the claims (not program state)
    \* ---- ApiSessionClient's user-message inbox (AgentBackend.ts 222-223) ----
    pendingMessages,         \* user messages received while no consumer is attached
    pendingMessageCallback,  \* whether runKimi's user-message callback is attached
    delivered,               \* receipt numbers of the messages handed to the callback
    startup,                 \* how far runKimi's start-up has come
    \* ---- agent events and the messages they cause ----
    backendEvents,   \* every event the backends produced, in the order of production
    outbound,        \* the agent messages sent to the remote party, oldest first
    \* ---- the last handler that ran, with its inputs ----
    ev

syncVars == <<metadata, metadataVersion, agentState, agentStateVersion,
              lockQueue, request, answer, relay, relayLog, issued, remoteWrites>>

gateVars == <<currentPermissionMode, pendingRequests, promises, sessionState, toolCalls>>

loopVars == <<loop, messageQueue, backends, turnLog, conversationHistory, userMessages, ghost>>

inboxVars == <<pendingMessages, pendingMessageCallback, delivered, startup>>

wireVars == <<backendEvents, outbound>>

vars == <<syncVars, gateVars, loopVars, inboxVars, wireVars, ev>>

\* what the handlers of one component leave alone
nonSyncVars == <<gateVars, loopVars, inboxVars, wireVars>>
nonGateVars == <<syncVars, loopVars, inboxVars, wireVars>>
nonLoopVars == <<syncVars, inboxVars, wireVars>>

Groups == {"metadata", "agentState"}

\* a null agentState (AgentState | null)
Null == <<"null">>
\* {} : the value fn is applied to when agentState is null
EmptyState == <<>>

\* the handler the bridge passes to its k-th updateX call: each adds one field
HandlerOf(k) == <<"b1", "b2", "b3", "b4">>[k]
ApplyHandler(h, current) == Append(current, h)

\* encrypt / decrypt with the session key
encrypt(v) == <<"enc", v>>
decrypt(c) == c[2]

LocalValue(g) == IF g = "metadata" THEN metadata ELSE agentState
LocalVersion(g) == IF g = "metadata" THEN metadataVersion ELSE agentStateVersion

\* what the relay held at version v
HeldAt(g, v) == relayLog[g][v + 1]

NoEvent == [op |-> "none"]

SyncInit ==
    /\ metadata = <<"m0">>
    /\ metadataVersion = 0
    /\ agentState = <<"s0">>
    /\ agentStateVersion = 0
    /\ lockQueue = [g \in Groups |-> <<>>]
    /\ request = [g \in Groups |-> <<>>]
    /\ answer = [g \in Groups |-> <<>>]
    /\ relay = [g \in Groups |->
                  [value |-> encrypt(IF g = "metadata" THEN <<"m0">> ELSE <<"s0">>),
                   version |-> 0]]
    /\ relayLog = [g \in Groups |->
                     << encrypt(IF g = "metadata" THEN <<"m0">> ELSE <<"s0">>) >>]
    /\ issued = 0
    /\ remoteWrites = 0

\* ------------------------------------------------------------------------
\* ApiSessionClient: optimistic writes
\* ------------------------------------------------------------------------
\* `x ? encodeBase64(encrypt(x)) : null` and `x ? decrypt(decodeBase64(x)) : null`
Wire(v) == IF v = Null THEN Null ELSE encrypt(v)
Unwire(c) == IF c = Null THEN Null ELSE decrypt(c)

\* an assignment that takes the version and leaves the value as it was
SetLocal_KeepsValue(g, val, ver) ==
    IF g = "metadata"
    THEN /\ metadataVersion' = ver
         /\ UNCHANGED <<metadata, agentState, agentStateVersion>>
    ELSE /\ agentStateVersion' = ver
         /\ UNCHANGED <<agentState, metadata, metadataVersion>>

\* the assignments of a branch: the value and its version
SetLocal(g, val, ver) ==
    IF g = "metadata"
    THEN /\ metadata' = val
         /\ metadataVersion' = ver
         /\ UNCHANGED <<agentState, agentStateVersion>>
    ELSE /\ agentState' = val
         /\ agentStateVersion' = ver
         /\ UNCHANGED <<metadata, metadataVersion>>

\* updateMetadata(handler) / updateAgentState(handler): the call queues on the
\* field-group's lock
CallUpdate(g, h) ==
    /\ issued < MaxCalls
    /\ issued + remoteWrites < MaxWrites
    /\ issued' = issued + 1
    /\ lockQueue' = [lockQueue EXCEPT ![g] =
                       Append(@, [h |-> h, awaiting |-> FALSE, mismatch |-> -1])]
    /\ ev' = [op |-> "call", g |-> g]
    /\ UNCHANGED <<metadata, metadataVersion, agentState, agentStateVersion,
                   request, answer, relay, relayLog, remoteWrites>>
    /\ UNCHANGED nonSyncVars

\* the value fn is applied to: this.metadata! resp. this.agentState || {}
HandlerInput(g) ==
    IF g = "agentState" /\ agentState = Null THEN EmptyState ELSE LocalValue(g)

\* AsyncLock.inLock: the calls run one at a time, in the order they were made
HoldsLock(g, i) == i = 1

\* the queue of calls without the call of handler h
RECURSIVE Without(_, _)
Without(q, h) ==
    IF q = <<>> THEN <<>>
    ELSE IF Head(q).h = h THEN Tail(q) ELSE <<Head(q)>> \o Without(Tail(q), h)

\* the position of the call of handler h in the queue, 0 if it is not there
PositionOf(q, h) ==
    IF \E i \in 1..Len(q) : q[i].h = h
    THEN CHOOSE i \in 1..Len(q) : q[i].h = h
    ELSE 0

\* one attempt inside backoff(): updated = handler(current),
\* emitWithAck({expectedVersion, value}); the attempt then awaits the answer
Attempt(g, i) ==
    /\ ~lockQueue[g][i].awaiting
    /\ lockQueue' = [lockQueue EXCEPT ![g][i].awaiting = TRUE]
    /\ request' = [request EXCEPT ![g] = Append(@,
                     [h |-> lockQueue[g][i].h,
                      expectedVersion |-> LocalVersion(g),
                      value |-> Wire(ApplyHandler(lockQueue[g][i].h, HandlerInput(g)))])]
    /\ ev' = [op |-> "send", g |-> g, h |-> lockQueue[g][i].h]
    /\ UNCHANGED <<metadata, metadataVersion, agentState, agentStateVersion,
                   answer, relay, relayLog, issued, remoteWrites>>
    /\ UNCHANGED nonSyncVars

\* the attempt of a call that does not go through the field-group's lock
SendUpdate_NoLock(g) == \E i \in 1..Len(lockQueue[g]) : Attempt(g, i)

\* the attempt of the call that runs inside the field-group's lock
SendUpdate(g) == \E i \in 1..Len(lockQueue[g]) : HoldsLock(g, i) /\ Attempt(g, i)

\* a version-mismatch answer is adopted whatever version it carries
Adopts_Always(g, version) == TRUE

\* a version-mismatch answer is never adopted
Adopts_Never(g, version) == FALSE

\* a version-mismatch answer is adopted when it is newer than what is held
Adopts(g, version) == version > LocalVersion(g)

\* an attempt that throws on a hard error as well
Throws_AlsoOnError(result) == result \in {"version-mismatch", "error"}

\* the attempt throws, so that backoff() runs it again
Throws(result) == result = "version-mismatch"

\* the answer of emitWithAck is handled by the attempt that awaits it
OnAnswer(g) ==
    /\ answer[g] # <<>>
    /\ LET a == Head(answer[g])
           i == PositionOf(lockQueue[g], a.h)
       IN
         /\ answer' = [answer EXCEPT ![g] = Tail(@)]
         /\ ev' = [op |-> "answer", g |-> g, h |-> a.h, result |-> a.result,
                   version |-> a.version, value |-> a.value]
         /\ CASE a.result = "success" ->
                   /\ SetLocal(g, IF g = "metadata" THEN decrypt(a.value) ELSE Unwire(a.value),
                               a.version)
                   /\ lockQueue' = [lockQueue EXCEPT ![g] = Without(@, a.h)]
              [] Throws(a.result) ->
                   /\ IF a.result = "version-mismatch" /\ Adopts(g, a.version)
                      THEN SetLocal(g, IF g = "metadata" THEN decrypt(a.value)
                                                          ELSE Unwire(a.value),
                                    a.version)
                      ELSE UNCHANGED <<metadata, metadataVersion, agentState, agentStateVersion>>
                   \* throw: backoff() runs the attempt again, the lock stays held
                   /\ lockQueue' = [lockQueue EXCEPT ![g][i].awaiting = FALSE,
                                                     ![g][i].mismatch = a.version]
              [] OTHER ->
                   \* hard error - ignore: the attempt returns, the lock is released
                   /\ UNCHANGED <<metadata, metadataVersion, agentState, agentStateVersion>>
                   /\ lockQueue' = [lockQueue EXCEPT ![g] = Without(@, a.h)]
    /\ UNCHANGED <<request, relay, relayLog, issued, remoteWrites>>
    /\ UNCHANGED nonSyncVars

\* OnUpdateSession without the version comparison: every snapshot is applied
OnUpdateSession_Unguarded(mv, av) ==
    /\ IF mv # -1
       THEN /\ metadata' = decrypt(HeldAt("metadata", mv))
            /\ metadataVersion' = mv
       ELSE UNCHANGED <<metadata, metadataVersion>>
    /\ IF av # -1
       THEN /\ agentState' = Unwire(HeldAt("agentState", av))
            /\ agentStateVersion' = av
       ELSE UNCHANGED <<agentState, agentStateVersion>>
    /\ ev' = [op |-> "update-session", mv |-> mv, av |-> av]
    /\ UNCHANGED <<lockQueue, request, answer, relay, relayLog, issued, remoteWrites>>
    /\ UNCHANGED nonSyncVars

\* socket.on('update'), body.t = 'update-session'; mv / av = -1: the body carries
\* no metadata / agentState
OnUpdateSession(mv, av) ==
    /\ IF mv # -1 /\ mv > metadataVersion
       THEN /\ metadata' = decrypt(HeldAt("metadata", mv))
            /\ metadataVersion' = mv
       ELSE UNCHANGED <<metadata, metadataVersion>>
    /\ IF av # -1 /\ av > agentStateVersion
       THEN /\ agentState' = Unwire(HeldAt("agentState", av))
            /\ agentStateVersion' = av
       ELSE UNCHANGED <<agentState, agentStateVersion>>
    /\ ev' = [op |-> "update-session", mv |-> mv, av |-> av]
    /\ UNCHANGED <<lockQueue, request, answer, relay, relayLog, issued, remoteWrites>>
    /\ UNCHANGED nonSyncVars

\* socket.on('update'), body.t = 'update-machine': ignored
OnUpdateMachine ==
    /\ ev' = [op |-> "update-machine"]
    /\ UNCHANGED <<syncVars, wireVars>>
    /\ UNCHANGED nonSyncVars

\* ------------------------------------------------------------------------
\* The relay and the remote party
\* ------------------------------------------------------------------------
\* the relay accepts a write iff expectedVersion is its version
RelayHandle(g, hard) ==
    /\ request[g] # <<>>
    /\ request' = [request EXCEPT ![g] = Tail(@)]
    /\ LET r == Head(request[g])
           reply == IF hard
                    THEN [h |-> r.h, result |-> "error", version |-> -1, value |-> Null]
                    ELSE IF r.expectedVersion = relay[g].version
                    THEN [h |-> r.h, result |-> "success",
                          version |-> relay[g].version + 1, value |-> r.value]
                    ELSE [h |-> r.h, result |-> "version-mismatch",
                          version |-> relay[g].version, value |-> relay[g].value]
       IN /\ answer' = [answer EXCEPT ![g] = Append(@, reply)]
          /\ IF reply.result = "success"
             THEN /\ relay' = [relay EXCEPT ![g] =
                                 [value |-> r.value, version |-> relay[g].version + 1]]
                  /\ relayLog' = [relayLog EXCEPT ![g] = Append(@, r.value)]
             ELSE UNCHANGED <<relay, relayLog>>
          /\ ev' = [op |-> "relay", g |-> g, h |-> r.h, result |-> reply.result]
    /\ UNCHANGED <<metadata, metadataVersion, agentState, agentStateVersion,
                   lockQueue, issued, remoteWrites>>
    /\ UNCHANGED nonSyncVars

\* the remote party's write is accepted by the relay (it may clear agentState)
RemoteWrite(g, clear) ==
    /\ remoteWrites < MaxRemote
    /\ issued + remoteWrites < MaxWrites
    /\ clear => g = "agentState"
    /\ remoteWrites' = remoteWrites + 1
    /\ LET cur == Unwire(relay[g].value)
           new == IF clear THEN Null
                  ELSE Wire(Append(IF cur = Null THEN EmptyState ELSE cur, "r"))
       IN /\ relay' = [relay EXCEPT ![g] = [value |-> new, version |-> relay[g].version + 1]]
          /\ relayLog' = [relayLog EXCEPT ![g] = Append(@, new)]
    /\ ev' = [op |-> "remote", g |-> g]
    /\ UNCHANGED <<metadata, metadataVersion, agentState, agentStateVersion,
                   lockQueue, request, answer, issued>>
    /\ UNCHANGED nonSyncVars

SyncStep ==
    \/ \E g \in Groups : CallUpdate(g, HandlerOf(issued + 1))
    \/ \E g \in Groups : SendUpdate(g)
    \/ \E g \in Groups : OnAnswer(g)
    \/ \E mv \in -1..relay["metadata"].version, av \in -1..relay["agentState"].version :
          OnUpdateSession(mv, av)
    \/ OnUpdateMachine
    \/ \E g \in Groups, hard \in BOOLEAN : RelayHandle(g, hard)
    \/ \E g \in Groups, clear \in BOOLEAN : RemoteWrite(g, clear)

\* ------------------------------------------------------------------------
\* KimiPermissionHandler (Permission Gate)
\* ------------------------------------------------------------------------
\* bound: handleToolCall calls
MaxToolCalls == 2

PermissionModes == {"default", "read-only", "safe-yolo", "yolo"}

\* tool names and call ids the agent raises
ToolNames == {"change_title", "happy__change_title", "KimiReasoning", "think",
              "save_memory", "writeFile", "other", "Edit"}
CallIds == {"change_title-abc123", "save_memory-123", "write-123", "think-123"}

\* the characters of a string
Chars(s) ==
    CASE s = "change_title" -> <<"c", "h", "a", "n", "g", "e", "_", "t", "i", "t", "l", "e">>
      [] s = "happy__change_title" ->
            <<"h", "a", "p", "p", "y", "_", "_", "c", "h", "a", "n", "g", "e", "_",
              "t", "i", "t", "l", "e">>
      [] s = "KimiReasoning" ->
            <<"K", "i", "m", "i", "R", "e", "a", "s", "o", "n", "i", "n", "g">>
      [] s = "think" -> <<"t", "h", "i", "n", "k">>
      [] s = "save_memory" -> <<"s", "a", "v", "e", "_", "m", "e", "m", "o", "r", "y">>
      [] s = "writeFile" -> <<"w", "r", "i", "t", "e", "F", "i", "l", "e">>
      [] s = "other" -> <<"o", "t", "h", "e", "r">>
      [] s = "Edit" -> <<"E", "d", "i", "t">>
      [] s = "write" -> <<"w", "r", "i", "t", "e">>
      [] s = "edit" -> <<"e", "d", "i", "t">>
      [] s = "create" -> <<"c", "r", "e", "a", "t", "e">>
      [] s = "delete" -> <<"d", "e", "l", "e", "t", "e">>
      [] s = "patch" -> <<"p", "a", "t", "c", "h">>
      [] s = "fs-edit" -> <<"f", "s", "-", "e", "d", "i", "t">>
      [] s = "change_title-abc123" ->
            <<"c", "h", "a", "n", "g", "e", "_", "t", "i", "t", "l", "e", "-",
              "a", "b", "c", "1", "2", "3">>
      [] s = "save_memory-123" ->
            <<"s", "a", "v", "e", "_", "m", "e", "m", "o", "r", "y", "-", "1", "2", "3">>
      [] s = "write-123" -> <<"w", "r", "i", "t", "e", "-", "1", "2", "3">>
      [] s = "think-123" -> <<"t", "h", "i", "n", "k", "-", "1", "2", "3">>

LowerMap ==
    [A |-> "a", B |-> "b", C |-> "c", D |-> "d", E |-> "e", F |-> "f", G |-> "g",
     H |-> "h", I |-> "i", J |-> "j", K |-> "k", L |-> "l", M |-> "m", N |-> "n",
     O |-> "o", P |-> "p", Q |-> "q", R |-> "r", S |-> "s", T |-> "t", U |-> "u",
     V |-> "v", W |-> "w", X |-> "x", Y |-> "y", Z |-> "z"]

\* String.prototype.toLowerCase on a character sequence
toLowerCase(cs) ==
    [i \in 1..Len(cs) |-> IF cs[i] \in DOMAIN LowerMap THEN LowerMap[cs[i]] ELSE cs[i]]

\* String.prototype.includes on character sequences
includes(cs, sub) ==
    \E i \in 0..(Len(cs) - Len(sub)) : SubSeq(cs, i + 1, i + Len(sub)) = sub

\* the name list without the reasoning tool "think"
alwaysAutoApproveNames_NoThink ==
    {"change_title", "happy__change_title", "KimiReasoning", "save_memory"}

alwaysAutoApproveNames ==
    {"change_title", "happy__change_title", "KimiReasoning", "think", "save_memory"}
alwaysAutoApproveIds == {"change_title", "save_memory"}
writeTools == {"write", "edit", "create", "delete", "patch", "fs-edit"}

\* the first two tests of shouldAutoApprove: the always-auto-approve set
MatchesAlwaysAutoApprove(toolName, toolCallId) ==
    \/ \E name \in alwaysAutoApproveNames :
          includes(toLowerCase(Chars(toolName)), toLowerCase(Chars(name)))
    \/ \E id \in alwaysAutoApproveIds :
          includes(toLowerCase(Chars(toolCallId)), toLowerCase(Chars(id)))

\* isWriteTool comparing without toLowerCase
isWriteTool_CaseSensitive(toolName) ==
    \E wt \in writeTools : includes(Chars(toolName), Chars(wt))

isWriteTool(toolName) ==
    \E wt \in writeTools : includes(toLowerCase(Chars(toolName)), Chars(wt))

\* shouldAutoApprove whose default case falls through to the approving cases
shouldAutoApprove_DefaultApproves(toolName, toolCallId) ==
    \/ MatchesAlwaysAutoApprove(toolName, toolCallId)
    \/ CASE currentPermissionMode = "yolo" -> TRUE
         [] currentPermissionMode = "safe-yolo" -> TRUE
         [] currentPermissionMode = "read-only" -> ~isWriteTool(toolName)
         [] OTHER -> TRUE

shouldAutoApprove(toolName, toolCallId) ==
    \/ MatchesAlwaysAutoApprove(toolName, toolCallId)
    \/ CASE currentPermissionMode = "yolo" -> TRUE
         [] currentPermissionMode = "safe-yolo" -> TRUE
         [] currentPermissionMode = "read-only" -> ~isWriteTool(toolName)
         [] OTHER -> FALSE

\* AutoDecision without the yolo distinction
AutoDecision_AlwaysApproved == "approved"

\* the decision an auto-approved call returns and records
AutoDecision ==
    IF currentPermissionMode = "yolo" THEN "approved_for_session" ELSE "approved"

\* a map with key k set to v ({...m, [k]: v}, Map.set)
Put(m, k, v) == [x \in (DOMAIN m) \cup {k} |-> IF x = k THEN v ELSE m[x]]
\* a map without key k
Remove(m, k) == [x \in (DOMAIN m) \ {k} |-> m[x]]
EmptyMap == [x \in {} |-> 0]

GateInit ==
    /\ currentPermissionMode = "default"
    /\ pendingRequests = EmptyMap
    /\ promises = <<>>
    /\ sessionState = [pendingRequests |-> EmptyMap, completedRequests |-> EmptyMap]
    /\ toolCalls = 0

setPermissionMode(mode) ==
    /\ currentPermissionMode' = mode
    /\ ev' = [op |-> "setPermissionMode", mode |-> mode]
    /\ UNCHANGED <<pendingRequests, promises, sessionState, toolCalls>>
    /\ UNCHANGED nonGateVars

\* a handler that leaves agentState alone when a request becomes pending
addPendingRequestToState_Skip(state, toolCallId, toolName) == state

\* a handler that files a call under another key when its call id is pending
PendingKey_Again(toolCallId) ==
    IF toolCallId \in DOMAIN pendingRequests THEN "again" ELSE toolCallId

\* the key of this.pendingRequests.set(toolCallId, ...)
PendingKey(toolCallId) == toolCallId

\* BasePermissionHandler.addPendingRequestToState
addPendingRequestToState(state, toolCallId, toolName) ==
    [state EXCEPT !.pendingRequests = Put(@, toolCallId, [tool |-> toolName])]

handleToolCall(toolCallId, toolName) ==
    /\ toolCalls < MaxToolCalls
    /\ toolCalls' = toolCalls + 1
    /\ IF shouldAutoApprove(toolName, toolCallId)
       THEN /\ sessionState' =
                 [sessionState EXCEPT !.completedRequests =
                     Put(@, toolCallId, [tool |-> toolName, status |-> "approved",
                                         decision |-> AutoDecision])]
            /\ ev' = [op |-> "handleToolCall", callId |-> toolCallId, toolName |-> toolName,
                      mode |-> currentPermissionMode, decision |-> AutoDecision]
            /\ UNCHANGED <<pendingRequests, promises>>
       ELSE /\ promises' = Append(promises, [callId |-> toolCallId, state |-> "pending"])
            /\ pendingRequests' =
                 Put(pendingRequests, PendingKey(toolCallId),
                     [toolName |-> toolName, promise |-> Len(promises) + 1])
            /\ sessionState' = addPendingRequestToState(sessionState, toolCallId, toolName)
            /\ ev' = [op |-> "handleToolCall", callId |-> toolCallId, toolName |-> toolName,
                      mode |-> currentPermissionMode, decision |-> "pending"]
    /\ UNCHANGED currentPermissionMode
    /\ UNCHANGED nonGateVars

\* BasePermissionHandler: the remote party's decision for a call id arrives
Decisions == {"approved", "denied"}
handlePermissionResponse(id, decision) ==
    /\ id \in DOMAIN pendingRequests
    /\ promises' = [promises EXCEPT ![pendingRequests[id].promise].state = decision]
    /\ pendingRequests' = Remove(pendingRequests, id)
    /\ sessionState' =
         [pendingRequests |-> Remove(sessionState.pendingRequests, id),
          completedRequests |->
             Put(sessionState.completedRequests, id,
                 [tool |-> pendingRequests[id].toolName,
                  status |-> IF decision = "approved" THEN "approved" ELSE "denied",
                  decision |-> decision])]
    /\ ev' = [op |-> "permission-response", callId |-> id, decision |-> decision]
    /\ UNCHANGED <<currentPermissionMode, toolCalls>>
    /\ UNCHANGED nonGateVars

\* BasePermissionHandler.reset: every pending request is rejected and cleared
resetGate ==
    /\ promises' = [i \in 1..Len(promises) |->
                      IF \E id \in DOMAIN pendingRequests : pendingRequests[id].promise = i
                      THEN [promises[i] EXCEPT !.state = "rejected"]
                      ELSE promises[i]]
    /\ pendingRequests' = EmptyMap
    /\ sessionState' =
         [pendingRequests |-> EmptyMap,
          completedRequests |->
             [x \in (DOMAIN sessionState.completedRequests)
                       \cup (DOMAIN sessionState.pendingRequests) |->
                 IF x \in DOMAIN sessionState.pendingRequests
                 THEN [tool |-> sessionState.pendingRequests[x].tool,
                       status |-> "canceled", decision |-> "abort"]
                 ELSE sessionState.completedRequests[x]]]

reset ==
    /\ resetGate
    /\ ev' = [op |-> "reset"]
    /\ UNCHANGED <<currentPermissionMode, toolCalls>>
    /\ UNCHANGED nonGateVars

GateStep ==
    \/ \E mode \in PermissionModes : setPermissionMode(mode)
    \/ \E id \in CallIds, name \in ToolNames : handleToolCall(id, name)
    \/ \E id \in CallIds, d \in Decisions : handlePermissionResponse(id, d)
    \/ reset

\* ------------------------------------------------------------------------
\* Session Orchestrator (runKimi): user messages, message queue, main loop
\* ------------------------------------------------------------------------
MaxUserMessages == 2   \* user messages received in one behaviour
MaxRestartMessages == 3  \* user messages received around a mode-change restart
MaxEvents == 2           \* events the backends produce in one behaviour
MaxIdParts == 2          \* word parts a tool call id is put together from
MaxDeltas == 1         \* text deltas accumulated in one response
MaxAborts == 1         \* abort requests of the remote party in one behaviour
MaxSwaps == 1          \* session swaps requested by the offline reconnection

Undefined == "<undefined>"   \* JavaScript undefined
NullModel == "<null>"        \* JavaScript null as a model value
Absent == "<absent>"         \* a meta property that is not present
Models == {"m1", "m2"}
NullHash == <<>>             \* currentModeHash = null
NoBackend == 0               \* kimiBackend = null
NoSession == 0               \* acpSessionId = null

\* the text of the k-th user message; a prompt is a sequence of such fragments
TextOf(k) == <<"t1", "t2", "t3", "t4">>[k]

\* hashObject: a deterministic serialisation of the object's defined properties
hashObject(obj) == [k \in {x \in DOMAIN obj : obj[x] # Undefined} |-> obj[k]]

\* a hasher that also covers the prompt text
modeHasher_WithText(mode) ==
    hashObject([permissionMode |-> mode.permissionMode, model |-> mode.model,
                originalUserMessage |-> mode.originalUserMessage])

\* the mode hasher handed to the message queue
modeHasher(mode) ==
    hashObject([permissionMode |-> mode.permissionMode, model |-> mode.model])

\* MessageQueue2.push
push(queue, message, mode) ==
    Append(queue, [message |-> message, mode |-> mode, hash |-> modeHasher(mode)])

\* number of leading queue items that carry the hash of the first one
RECURSIVE BatchLen(_)
BatchLen(queue) ==
    IF Len(queue) <= 1 THEN Len(queue)
    ELSE IF queue[2].hash = queue[1].hash
         THEN 1 + BatchLen(Tail(queue))
         ELSE 1

RECURSIVE JoinMessages(_, _)
JoinMessages(queue, n) ==
    IF n = 1 THEN queue[1].message
    ELSE queue[1].message \o <<"\n">> \o JoinMessages(Tail(queue), n - 1)

\* MessageQueue2.waitForMessagesAndGetAsString: the leading same-hash items as one prompt
collectBatch(queue) ==
    [message |-> JoinMessages(queue, BatchLen(queue)),
     mode |-> queue[1].mode,
     hash |-> queue[1].hash]

\* the options the orchestrator constructs its ConversationHistory with
historyOptions_LargeCount == [maxMessages |-> 200, maxCharacters |-> 50000]
historyOptions == [maxMessages |-> 20, maxCharacters |-> 50000]

\* number of characters of one fragment of text
FragmentLength(f) ==
    CASE f = "L" -> 30000
      [] f = "XL" -> 60000
      [] f = "\n" -> 1
      [] f = " " -> 1
      [] OTHER -> 2

RECURSIVE length(_)
length(text) ==
    IF text = <<>> THEN 0 ELSE FragmentLength(Head(text)) + length(Tail(text))

RECURSIVE totalCharacters(_)
totalCharacters(h) ==
    IF h = <<>> THEN 0 ELSE length(Head(h).content) + totalCharacters(Tail(h))

\* ConversationHistory: the oldest entries are evicted while a bound is exceeded
RECURSIVE trimHistory(_)
trimHistory(h) ==
    IF h # <<>> /\ (Len(h) > historyOptions.maxMessages
                    \/ totalCharacters(h) > historyOptions.maxCharacters)
    THEN trimHistory(Tail(h))
    ELSE h

addUserMessage(h, content) ==
    trimHistory(Append(h, [role |-> "user", content |-> content]))

addAssistantMessage(h, content) ==
    trimHistory(Append(h, [role |-> "assistant", content |-> content]))

\* a history that always reports entries
hasHistory_Always(h) == TRUE

\* ConversationHistory.getContextForNewSession: the preamble that renders the
\* entries of the buffer, oldest first, each with its role
getContextForNewSession(h) ==
    LET RECURSIVE formatted(_)
        formatted(m) ==
            IF m = <<>> THEN <<>>
            ELSE <<Head(m).role>> \o Head(m).content \o formatted(Tail(m))
    IN <<"HISTORY_CONTEXT">> \o formatted(h)

hasHistory(h) == h # <<>>

\* String.prototype.trim() leaves a non-empty string
trimNonEmpty(text) == \E i \in 1..Len(text) : text[i] \notin {" ", "\n"}

NoMessage == [message |-> <<>>, mode |-> [permissionMode |-> "default", model |-> Undefined,
                                          originalUserMessage |-> ""], hash |-> NullHash]
NoTurn == [known |-> FALSE]
\* pendingSessionSwap = null
NoSwap == -1

\* the inbox once runKimi has reached its main loop with no message received
InboxInit ==
    /\ pendingMessages = <<>>
    /\ pendingMessageCallback = TRUE
    /\ delivered = <<>>
    /\ startup = "done"

\* the inbox when the session client has just been constructed
InboxCreated ==
    /\ pendingMessages = <<>>
    /\ pendingMessageCallback = FALSE
    /\ delivered = <<>>
    /\ startup = "created"

\* the locals of runKimi when the main loop is entered
InitialLoop ==
              [pc |-> "wait",
               currentPermissionMode |-> Undefined,
               currentModel |-> Undefined,
               isFirstMessage |-> TRUE,
               message |-> NoMessage,
               injectHistoryContext |-> FALSE,
               kimiBackend |-> NoBackend,
               acpSessionId |-> NoSession,
               wasSessionCreated |-> FALSE,
               first |-> TRUE,
               currentModeHash |-> NullHash,
               isProcessingMessage |-> FALSE,
               accumulatedResponse |-> <<>>,
               shouldExit |-> FALSE,
               kill |-> "idle",
               aborted |-> FALSE,
               cancelling |-> 0,
               aborts |-> 0,
               session |-> 0,
               permissionSession |-> 0,
               pendingSessionSwap |-> NoSwap,
               swaps |-> 0,
               closing |-> FALSE,
               thinking |-> FALSE,
               isResponseInProgress |-> FALSE,
               taskStartedSent |-> FALSE,
               previousDiffs |-> EmptyMap]

LoopInit ==
    /\ loop = InitialLoop
    /\ messageQueue = <<>>
    /\ backends = <<>>
    /\ turnLog = <<>>
    /\ conversationHistory = <<>>
    /\ userMessages = 0
    /\ ghost = [startedUnder |-> NullHash, prev |-> NoTurn, turn |-> NoTurn, fatal |-> {},
                ended |-> {}, deltas |-> <<>>]
    /\ backendEvents = <<>>
    /\ outbound = <<>>

\* ---- the user-message handler ----
validModes == {"default", "read-only", "safe-yolo", "yolo"}
MetaPermissionModes == {Absent, "yolo", "bogus"}
MetaModels == {Absent, NullModel} \cup Models
MetaSystemPrompts == {"sys"}

\* updatePermissionMode as called from the orchestrator
updatePermissionMode(mode) ==
    /\ currentPermissionMode' = mode
    /\ UNCHANGED <<pendingRequests, promises, sessionState, toolCalls>>

\* what one step of the orchestrator does to the Permission Gate
GateEffect(kind, mode) ==
    CASE kind = "mode" -> updatePermissionMode(mode)
      [] kind = "reset" -> resetGate /\ UNCHANGED <<currentPermissionMode, toolCalls>>
      [] OTHER -> UNCHANGED gateVars

\* whether the callback reaches a use of a binding that runKimi has not
\* initialised yet: updatePermissionMode is declared after the await of
\* startHappyServer
CallbackThrows(metaPermissionMode) ==
    /\ startup # "done"
    /\ \/ metaPermissionMode # Absent /\ metaPermissionMode \in validModes
       \/ loop.currentPermissionMode = Undefined

\* the part of the callback that runs before it throws
BeforeThrow(l, metaPermissionMode) ==
    [l EXCEPT !.currentPermissionMode =
                  IF metaPermissionMode # Absent /\ metaPermissionMode \in validModes
                  THEN metaPermissionMode ELSE "default"]

\* the callback registered with session.onUserMessage runs for a message with
\* this meta and this text, and returns
UserMessageCallback(metaPermissionMode, metaModel, appendSystemPrompt, text) ==
    /\ loop.pc # "exited"
    /\ startup # "crashed"
    /\ pendingMessageCallback
    /\ ~CallbackThrows(metaPermissionMode)
    /\ delivered' = Append(delivered, userMessages + 1)
    /\ UNCHANGED <<pendingMessages, pendingMessageCallback, startup>>
    /\ LET accepted == metaPermissionMode # Absent /\ metaPermissionMode \in validModes
           messagePermissionMode ==
               IF accepted THEN metaPermissionMode ELSE loop.currentPermissionMode
           messageModel ==
               IF metaModel = Absent THEN loop.currentModel
               ELSE IF metaModel = NullModel THEN Undefined
               ELSE metaModel
           originalUserMessage == text
           withSystemPrompt == loop.isFirstMessage /\ appendSystemPrompt # Absent
           fullPrompt ==
               IF withSystemPrompt
               THEN <<appendSystemPrompt, "\n", "\n", originalUserMessage, "\n", "\n",
                      "CHANGE_TITLE_INSTRUCTION">>
               ELSE <<originalUserMessage>>
           mode == [permissionMode |-> IF messagePermissionMode = Undefined
                                       THEN "default" ELSE messagePermissionMode,
                    model |-> messageModel,
                    originalUserMessage |-> originalUserMessage]
       IN /\ loop' = [loop EXCEPT
                        !.currentPermissionMode =
                            IF messagePermissionMode = Undefined
                            THEN "default" ELSE messagePermissionMode,
                        !.currentModel = messageModel,
                        !.isFirstMessage = loop.isFirstMessage /\ ~withSystemPrompt]
          /\ IF accepted THEN updatePermissionMode(metaPermissionMode)
             ELSE IF messagePermissionMode = Undefined THEN updatePermissionMode("default")
             ELSE UNCHANGED gateVars
          /\ messageQueue' = push(messageQueue, fullPrompt, mode)
          /\ conversationHistory' =
                 addUserMessage(conversationHistory, <<originalUserMessage>>)
    /\ userMessages' = userMessages + 1
    /\ UNCHANGED ev
    /\ UNCHANGED <<backends, turnLog, ghost>>
    /\ UNCHANGED <<syncVars, wireVars>>

\* a user message arrives while the callback is attached, and the callback returns
OnUserMessage(metaPermissionMode, metaModel, appendSystemPrompt) ==
    /\ userMessages < MaxUserMessages
    /\ UserMessageCallback(metaPermissionMode, metaModel, appendSystemPrompt,
                           TextOf(userMessages + 1))

\* a user message arrives while the callback is attached, and the callback
\* throws: the socket handler's catch logs the error and the message is gone
OnUserMessageThrows(metaPermissionMode) ==
    /\ userMessages < MaxUserMessages
    /\ startup # "crashed"
    /\ pendingMessageCallback
    /\ CallbackThrows(metaPermissionMode)
    /\ delivered' = Append(delivered, userMessages + 1)
    /\ loop' = BeforeThrow(loop, metaPermissionMode)
    /\ userMessages' = userMessages + 1
    /\ UNCHANGED <<pendingMessages, pendingMessageCallback, startup>>
    /\ UNCHANGED <<messageQueue, backends, turnLog, conversationHistory, ghost>>
    /\ UNCHANGED ev
    /\ UNCHANGED gateVars
    /\ UNCHANGED <<syncVars, wireVars>>

\* a user message arrives while no callback is attached
BufferUserMessage(metaPermissionMode, metaModel, appendSystemPrompt) ==
    /\ userMessages < MaxUserMessages
    /\ startup # "crashed"
    /\ ~pendingMessageCallback
    /\ pendingMessages' = Append(pendingMessages,
                                 [k |-> userMessages + 1,
                                  permissionMode |-> metaPermissionMode,
                                  model |-> metaModel,
                                  appendSystemPrompt |-> appendSystemPrompt])
    /\ userMessages' = userMessages + 1
    /\ UNCHANGED <<pendingMessageCallback, delivered, startup>>
    /\ UNCHANGED <<loop, messageQueue, backends, turnLog, conversationHistory, ghost>>
    /\ UNCHANGED ev
    /\ UNCHANGED gateVars
    /\ UNCHANGED <<syncVars, wireVars>>

\* runKimi attaches its callback: session.onUserMessage sets the callback and
\* hands it the buffered messages one by one. No callback has run before, so
\* currentPermissionMode is undefined and the first call throws at
\* updatePermissionMode; the exception leaves the drain loop and runKimi
AttachConsumer ==
    /\ startup = "created"
    /\ pendingMessageCallback' = TRUE
    /\ IF pendingMessages = <<>>
       THEN /\ startup' = "server"
            /\ UNCHANGED <<pendingMessages, delivered, loop>>
       ELSE /\ CallbackThrows(Head(pendingMessages).permissionMode)
            /\ delivered' = Append(delivered, Head(pendingMessages).k)
            /\ pendingMessages' = Tail(pendingMessages)
            /\ loop' = BeforeThrow(loop, Head(pendingMessages).permissionMode)
            /\ startup' = "crashed"
    /\ UNCHANGED <<messageQueue, backends, turnLog, conversationHistory, userMessages, ghost>>
    /\ UNCHANGED ev
    /\ UNCHANGED gateVars
    /\ UNCHANGED <<syncVars, wireVars>>

\* startHappyServer resolves and runKimi reaches its main loop
ServerStarted ==
    /\ startup = "server"
    /\ startup' = "done"
    /\ UNCHANGED <<pendingMessages, pendingMessageCallback, delivered>>
    /\ UNCHANGED loopVars
    /\ UNCHANGED ev
    /\ UNCHANGED gateVars
    /\ UNCHANGED <<syncVars, wireVars>>

InboxStep ==
    \/ \E pm \in MetaPermissionModes, m \in MetaModels, sp \in MetaSystemPrompts :
          BufferUserMessage(pm, m, sp)
    \/ AttachConsumer
    \/ \E pm \in MetaPermissionModes : OnUserMessageThrows(pm)
    \/ ServerStarted
    \/ \E pm \in MetaPermissionModes, m \in MetaModels, sp \in MetaSystemPrompts :
          OnUserMessage(pm, m, sp)

\* ---- the abort handler ----
\* handleAbort up to its first await: the controller is aborted; with a live
\* session the handler then awaits cancel, and replaces the controller only
\* in its finally; without one the finally runs at once
AbortEffect(l) ==
    IF l.kimiBackend # NoBackend /\ l.acpSessionId # NoSession
    THEN [l EXCEPT !.aborted = TRUE, !.cancelling = @ + 1, !.previousDiffs = EmptyMap]
    ELSE [l EXCEPT !.aborted = FALSE, !.previousDiffs = EmptyMap]

handleAbort ==
    /\ loop.pc # "exited"
    /\ loop.aborts < MaxAborts
    /\ loop' = [AbortEffect(loop) EXCEPT !.aborts = @ + 1]
    /\ messageQueue' = <<>>
    /\ UNCHANGED ev
    /\ UNCHANGED <<backends, turnLog, conversationHistory, userMessages, ghost>>
    /\ UNCHANGED gateVars
    /\ UNCHANGED nonLoopVars

\* the cancel settles and the aborted controller is left in place
CancelDone_KeepsController ==
    /\ loop.pc # "exited"
    /\ loop.cancelling > 0
    /\ loop' = [loop EXCEPT !.cancelling = @ - 1]
    /\ UNCHANGED ev
    /\ UNCHANGED <<messageQueue, backends, turnLog, conversationHistory, userMessages, ghost>>
    /\ UNCHANGED gateVars
    /\ UNCHANGED nonLoopVars

\* the cancel awaited by handleAbort settles (resolved or rejected): the
\* finally installs a fresh AbortController
CancelDone ==
    /\ loop.pc # "exited"
    /\ loop.cancelling > 0
    /\ loop' = [loop EXCEPT !.cancelling = @ - 1, !.aborted = FALSE]
    /\ UNCHANGED ev
    /\ UNCHANGED <<messageQueue, backends, turnLog, conversationHistory, userMessages, ghost>>
    /\ UNCHANGED gateVars
    /\ UNCHANGED nonLoopVars

\* ---- Ctrl-C in the terminal UI ----
\* shouldExit is set and handleAbort called; a loop waiting for a prompt gets
\* no batch and breaks
OnExit ==
    /\ loop.pc # "exited"
    /\ ~loop.shouldExit
    /\ loop' = [AbortEffect(loop) EXCEPT !.shouldExit = TRUE,
                                         !.pc = IF @ = "wait" THEN "cleanup" ELSE @]
    /\ messageQueue' = <<>>
    /\ UNCHANGED ev
    /\ UNCHANGED <<backends, turnLog, conversationHistory, userMessages, ghost>>
    /\ UNCHANGED gateVars
    /\ UNCHANGED nonLoopVars

\* ---- the session-swap callback of the offline reconnection ----
OnSessionSwap ==
    /\ loop.pc # "exited"
    /\ loop.swaps < MaxSwaps
    /\ LET newSession == loop.swaps + 1
       IN loop' = IF loop.isProcessingMessage
                  THEN [loop EXCEPT !.pendingSessionSwap = newSession, !.swaps = @ + 1]
                  ELSE [loop EXCEPT !.session = newSession,
                                    !.permissionSession = newSession,
                                    !.swaps = @ + 1]
    /\ UNCHANGED ev
    /\ UNCHANGED <<messageQueue, backends, turnLog, conversationHistory, userMessages, ghost>>
    /\ UNCHANGED gateVars
    /\ UNCHANGED nonLoopVars

\* ---- events of the live backend ----
TextDeltas == {"d", " "}

\* a status error that leaves the accumulated response as it is
OnStatusError_KeepsText ==
    /\ loop.pc # "exited"
    /\ loop.kimiBackend # NoBackend
    /\ backends[loop.kimiBackend].state = "started"
    /\ loop.kimiBackend \notin ghost.fatal
    /\ loop' = [loop EXCEPT !.thinking = FALSE,
                            !.isResponseInProgress = FALSE]
    /\ turnLog' = turnLog \o
                      <<[op |-> "sendAgentMessage", by |-> "handler", type |-> "turn_aborted"],
                        [op |-> "sendAgentMessage", by |-> "handler", type |-> "message",
                         message |-> <<"Error: ">>, id |-> Absent]>>
    /\ ghost' = [ghost EXCEPT !.fatal = @ \cup {loop.kimiBackend}, !.deltas = <<>>]
    /\ UNCHANGED ev
    /\ UNCHANGED <<messageQueue, backends, conversationHistory, userMessages>>
    /\ UNCHANGED gateVars
    /\ UNCHANGED nonLoopVars

\* the live backend reports status error: the accumulated response is dropped,
\* the backend is kept
OnStatusError ==
    /\ loop.pc # "exited"
    /\ loop.kimiBackend # NoBackend
    /\ backends[loop.kimiBackend].state = "started"
    /\ loop.kimiBackend \notin ghost.fatal
    /\ loop' = [loop EXCEPT !.accumulatedResponse = <<>>, !.thinking = FALSE,
                            !.isResponseInProgress = FALSE]
    /\ turnLog' = turnLog \o
                      <<[op |-> "sendAgentMessage", by |-> "handler", type |-> "turn_aborted"],
                        [op |-> "sendAgentMessage", by |-> "handler", type |-> "message",
                         message |-> <<"Error: ">>, id |-> Absent]>>
    /\ ghost' = [ghost EXCEPT !.fatal = @ \cup {loop.kimiBackend}, !.deltas = <<>>]
    /\ UNCHANGED ev
    /\ UNCHANGED <<messageQueue, backends, conversationHistory, userMessages>>
    /\ UNCHANGED gateVars
    /\ UNCHANGED nonLoopVars

\* the live backend reports status running: thinking is set and task_started
\* is sent unless one was sent since the flag was last cleared
OnStatusRunning ==
    /\ loop.pc # "exited"
    /\ loop.kimiBackend # NoBackend
    /\ backends[loop.kimiBackend].state = "started"
    /\ loop' = [loop EXCEPT !.thinking = TRUE, !.taskStartedSent = TRUE]
    /\ turnLog' = IF loop.taskStartedSent THEN turnLog
                  ELSE Append(turnLog, [op |-> "sendAgentMessage", by |-> "handler",
                                        type |-> "task_started"])
    /\ UNCHANGED ev
    /\ UNCHANGED <<messageQueue, backends, conversationHistory, userMessages, ghost>>
    /\ UNCHANGED gateVars
    /\ UNCHANGED nonLoopVars

\* the live backend delivers a model-output event with a text delta: the
\* handler appends it to the accumulated response
OnModelOutput(textDelta) ==
    /\ loop.pc # "exited"
    /\ loop.kimiBackend # NoBackend
    /\ backends[loop.kimiBackend].state = "started"
    /\ Len(loop.accumulatedResponse) < MaxDeltas
    /\ loop' = [loop EXCEPT !.accumulatedResponse = Append(@, textDelta),
                            !.isResponseInProgress = TRUE]
    /\ ghost' = [ghost EXCEPT !.deltas = Append(@, textDelta)]
    /\ UNCHANGED ev
    /\ UNCHANGED <<messageQueue, backends, turnLog, conversationHistory, userMessages>>
    /\ UNCHANGED gateVars
    /\ UNCHANGED nonLoopVars

\* ---- the ready event ----
\* emitReadyIfIdle without the test of the queue
emitReadyIfIdle_IgnoresQueue(l, queue) ==
    IF l.shouldExit \/ l.thinking \/ l.isResponseInProgress
    THEN [sent |-> <<>>, result |-> FALSE]
    ELSE [sent |-> <<"ready">>, result |-> TRUE]

\* emitReadyIfIdle: the session events it sends and the value it returns
emitReadyIfIdle(l, queue) ==
    IF l.shouldExit THEN [sent |-> <<>>, result |-> FALSE]
    ELSE IF l.thinking THEN [sent |-> <<>>, result |-> FALSE]
    ELSE IF l.isResponseInProgress THEN [sent |-> <<>>, result |-> FALSE]
    ELSE IF Len(queue) > 0 THEN [sent |-> <<>>, result |-> FALSE]
    ELSE [sent |-> <<"ready">>, result |-> TRUE]

\* ---- the main loop ----
LoopOp(op, b) == [op |-> op, backend |-> b, by |-> "loop"]

modelToUse(mode) ==
    IF mode.model = Undefined THEN Undefined
    ELSE IF mode.model = "" THEN NullModel ELSE mode.model

\* a backend on which the message handler is registered twice
createKimiBackend_TwoHandlers(bs, model) ==
    Append(bs, [model |-> model, state |-> "created", released |-> 0, handlers |-> 2])

\* createKimiBackend followed by setupKimiMessageHandler: the new backend has
\* the one message handler registered on it
createKimiBackend(bs, model) ==
    Append(bs, [model |-> model, state |-> "created", released |-> 0, handlers |-> 1])

SetState(bs, b, state) == [bs EXCEPT ![b].state = state]

\* a dispose that releases nothing
dispose_Never(bs, b) == bs

\* a dispose that releases the subprocess on every call
dispose_Again(bs, b) ==
    [bs EXCEPT ![b].state = "disposed", ![b].released = @ + 1]

\* AgentBackend.dispose: releases the subprocess/connection; a backend already
\* disposed is left as it is
dispose(bs, b) ==
    IF bs[b].state = "disposed" THEN bs
    ELSE [bs EXCEPT ![b].state = "disposed", ![b].released = @ + 1]

\* the mode-change test of the loop, switched off
ModeChanged_Never(l, message) == FALSE

\* the mode-change test of the loop
ModeChanged(l, message) ==
    /\ l.wasSessionCreated
    /\ l.currentModeHash # NullHash
    /\ message.hash # l.currentModeHash

\* the prompt is handed to the backend; the loop then awaits sendPrompt
SendPrompt(l, log, bs, gate) ==
    LET promptToSend ==
            IF l.injectHistoryContext /\ hasHistory(conversationHistory)
            THEN getContextForNewSession(conversationHistory) \o l.message.message
            ELSE l.message.message
    IN /\ loop' = [l EXCEPT !.accumulatedResponse = <<>>, !.isResponseInProgress = FALSE,
                            !.taskStartedSent = FALSE, !.pc = "send"]
       /\ turnLog' = Append(log, [op |-> "sendPrompt", backend |-> l.kimiBackend,
                                  by |-> "loop", prompt |-> promptToSend])
       /\ backends' = bs
       /\ GateEffect(gate, l.message.mode.permissionMode)
       /\ UNCHANGED conversationHistory

\* from the assignment of currentModeHash to the first await of the turn
TurnBody(l0, log, bs, gate) ==
    LET l == [l0 EXCEPT !.currentModeHash = l0.message.hash,
                        !.isProcessingMessage = TRUE]
        create == (l.first \/ ~l.wasSessionCreated) /\ l.kimiBackend = NoBackend
        bs1 == IF create THEN createKimiBackend(bs, modelToUse(l.message.mode)) ELSE bs
        l1 == IF create THEN [l EXCEPT !.kimiBackend = Len(bs1)] ELSE l
        log1 == IF create THEN Append(log, LoopOp("create", Len(bs1))) ELSE log
    IN IF (l.first \/ ~l.wasSessionCreated) /\ l1.acpSessionId = NoSession
       THEN /\ loop' = [l1 EXCEPT !.pc = "start"]
            /\ turnLog' = Append(log1, LoopOp("startSession", l1.kimiBackend))
            /\ backends' = bs1
            /\ GateEffect("mode", l.message.mode.permissionMode)
            /\ UNCHANGED conversationHistory
       ELSE SendPrompt(l1, log1, bs1, gate)

\* the catch (for a rejection: an AbortError or another error) and the
\* finally block of a turn, with what they send to the remote party
EndTurn(l, log, bs, caught) ==
    LET respond == trimNonEmpty(l.accumulatedResponse)
        swap == l.pendingSessionSwap # NoSwap
        idle == [l EXCEPT !.accumulatedResponse = IF respond THEN <<>> ELSE @,
                          !.isResponseInProgress = IF respond THEN FALSE ELSE @,
                          !.taskStartedSent = FALSE,
                          !.thinking = FALSE,
                          !.previousDiffs = EmptyMap]
        inCatch ==
            CASE caught = "abort" ->
                     <<[op |-> "sendSessionEvent", by |-> "loop", type |-> "message",
                        message |-> <<"Aborted by user">>]>>
              [] caught = "error" ->
                     <<[op |-> "sendAgentMessage", by |-> "loop", type |-> "message",
                        message |-> <<"errorMsg">>, id |-> Absent]>>
              [] OTHER -> <<>>
        response ==
            IF respond
            THEN <<[op |-> "sendAgentMessage", by |-> "loop", type |-> "message",
                    message |-> l.accumulatedResponse, id |-> "uuid"]>>
            ELSE <<>>
        ready ==
            [i \in 1..Len(emitReadyIfIdle(idle, messageQueue).sent) |->
                [op |-> "sendSessionEvent", by |-> "loop",
                 type |-> emitReadyIfIdle(idle, messageQueue).sent[i]]]
    IN /\ loop' = [idle EXCEPT !.pc = IF l.shouldExit THEN "cleanup" ELSE "wait",
                               !.isProcessingMessage = FALSE,
                               !.session = IF swap THEN l.pendingSessionSwap ELSE @,
                               !.permissionSession = IF swap THEN l.pendingSessionSwap ELSE @,
                               !.pendingSessionSwap = NoSwap]
       /\ conversationHistory' =
              IF respond
              THEN addAssistantMessage(conversationHistory, l.accumulatedResponse)
              ELSE conversationHistory
       /\ turnLog' = log \o inCatch \o response
                         \o <<[op |-> "sendAgentMessage", by |-> "loop",
                               type |-> "task_complete"]>>
                         \o ready
       /\ backends' = bs
       /\ GateEffect("reset", "default")

\* the restart creates the new backend and awaits its startSession
RestartCreate(l, log, bs, gate) ==
    LET bs1 == createKimiBackend(bs, modelToUse(l.message.mode))
    IN /\ loop' = [l EXCEPT !.kimiBackend = Len(bs1), !.pc = "mc_start"]
       /\ turnLog' = log \o <<LoopOp("create", Len(bs1)), LoopOp("startSession", Len(bs1))>>
       /\ backends' = bs1
       /\ GateEffect(gate, "default")
       /\ UNCHANGED conversationHistory

SessionActive == 
    /\ loop.acpSessionId # NoSession
    /\ loop.kimiBackend # NoBackend
    /\ backends[loop.kimiBackend].state = "started"

Dequeue ==
    /\ loop.pc = "wait"
    /\ messageQueue # <<>>
    /\ LET message == collectBatch(messageQueue)
           n == BatchLen(messageQueue)
       IN /\ messageQueue' = SubSeq(messageQueue, n + 1, Len(messageQueue))
          /\ ghost' = [ghost EXCEPT
                         !.deltas = <<>>,
                         !.prev = [known |-> TRUE, mode |-> message.mode,
                                   hash |-> message.hash],
                         !.turn = [known |-> TRUE,
                                   active |-> SessionActive,
                                   hadHistory |-> conversationHistory # <<>>,
                                   startedUnder |-> ghost.startedUnder,
                                   old |-> loop.kimiBackend,
                                   constructed |-> Len(backends),
                                   prev |-> ghost.prev]]
          /\ IF ModeChanged(loop, message)
             THEN LET l == [loop EXCEPT
                              !.message = message,
                              !.injectHistoryContext = hasHistory(conversationHistory)]
                  IN IF l.kimiBackend # NoBackend
                     THEN /\ loop' = [l EXCEPT !.pc = "mc_dispose"]
                          /\ turnLog' = <<LoopOp("dispose", l.kimiBackend)>>
                          /\ GateEffect("reset", "default")
                          /\ UNCHANGED <<backends, conversationHistory>>
                     ELSE RestartCreate(l, <<>>, backends, "reset")
             ELSE TurnBody([loop EXCEPT !.message = message,
                                        !.injectHistoryContext = FALSE],
                           <<>>, backends, "keep")
    /\ UNCHANGED ev
    /\ UNCHANGED userMessages
    /\ UNCHANGED nonLoopVars

\* the dispose awaited by the restart settles
McDisposeDone(ok) ==
    /\ loop.pc = "mc_dispose"
    /\ IF ok
       THEN RestartCreate([loop EXCEPT !.kimiBackend = NoBackend], turnLog,
                          dispose(backends, loop.kimiBackend), "keep")
       ELSE /\ loop' = [loop EXCEPT !.pc = "cleanup"]
            /\ UNCHANGED <<backends, turnLog, conversationHistory>>
            /\ UNCHANGED gateVars
    /\ UNCHANGED ev
    /\ UNCHANGED <<messageQueue, userMessages, ghost>>
    /\ UNCHANGED nonLoopVars

\* the startSession awaited by the restart settles
McStartDone(ok) ==
    /\ loop.pc = "mc_start"
    /\ IF ok
       THEN /\ TurnBody([loop EXCEPT !.acpSessionId = loop.kimiBackend,
                                    !.wasSessionCreated = TRUE,
                                    !.currentModeHash = loop.message.hash,
                                    !.first = FALSE],
                        turnLog, SetState(backends, loop.kimiBackend, "started"), "mode")
            /\ ghost' = [ghost EXCEPT !.startedUnder = loop.message.hash, !.deltas = <<>>]
       ELSE /\ loop' = [loop EXCEPT !.pc = "cleanup"]
            /\ backends' = SetState(backends, loop.kimiBackend, "failed")
            /\ ghost' = [ghost EXCEPT !.fatal = @ \cup {loop.kimiBackend}]
            /\ UNCHANGED <<turnLog, conversationHistory>>
            /\ UNCHANGED gateVars
    /\ UNCHANGED ev
    /\ UNCHANGED <<messageQueue, userMessages>>
    /\ UNCHANGED nonLoopVars

\* the startSession awaited inside the turn settles
StartDone(ok) ==
    /\ loop.pc = "start"
    /\ IF ok
       THEN /\ SendPrompt([loop EXCEPT !.acpSessionId = loop.kimiBackend,
                                      !.wasSessionCreated = TRUE,
                                      !.currentModeHash = loop.message.hash],
                          turnLog, SetState(backends, loop.kimiBackend, "started"), "keep")
            /\ ghost' = [ghost EXCEPT !.startedUnder = loop.message.hash, !.deltas = <<>>]
       ELSE /\ EndTurn(loop, turnLog, SetState(backends, loop.kimiBackend, "failed"),
                       "error")
            /\ ghost' = [ghost EXCEPT !.fatal = @ \cup {loop.kimiBackend}]
    /\ UNCHANGED ev
    /\ UNCHANGED <<messageQueue, userMessages>>
    /\ UNCHANGED nonLoopVars

\* the sendPrompt awaited inside the turn settles: it resolves, rejects with
\* an AbortError, or rejects with another error
Outcomes == {"ok", "aborted", "error"}

SendDone(outcome) ==
    /\ loop.pc = "send"
    /\ IF outcome = "ok"
       THEN /\ loop' = [loop EXCEPT !.pc = "respond"]
            /\ UNCHANGED <<backends, turnLog, conversationHistory>>
            /\ UNCHANGED gateVars
       ELSE EndTurn(loop, turnLog, backends, IF outcome = "aborted" THEN "abort" ELSE "error")
    /\ ghost' = IF outcome = "error"
                THEN [ghost EXCEPT !.fatal = @ \cup {loop.kimiBackend}]
                ELSE ghost
    /\ UNCHANGED ev
    /\ UNCHANGED <<messageQueue, userMessages>>
    /\ UNCHANGED nonLoopVars

\* a wait whose timeout rejects
ResponseDone_TimeoutRejects(settled) ==
    /\ loop.pc = "respond"
    /\ EndTurn([loop EXCEPT !.first = IF settled = "complete" THEN FALSE ELSE @],
               Append(turnLog, [op |-> "waitForResponseComplete",
                                backend |-> loop.kimiBackend, by |-> "loop",
                                settled |-> settled]),
               backends, IF settled = "complete" THEN "none" ELSE "error")
    /\ UNCHANGED ev
    /\ UNCHANGED <<messageQueue, userMessages, ghost>>
    /\ UNCHANGED nonLoopVars

\* the waitForResponseComplete awaited inside the turn settles: it resolves
\* because no further output is expected or because its timeout has passed,
\* or it rejects
ResponseDone(settled) ==
    /\ loop.pc = "respond"
    /\ EndTurn([loop EXCEPT !.first = IF settled # "rejected" THEN FALSE ELSE @],
               Append(turnLog, [op |-> "waitForResponseComplete",
                                backend |-> loop.kimiBackend, by |-> "loop",
                                settled |-> settled]),
               backends, IF settled = "rejected" THEN "error" ELSE "none")
    /\ UNCHANGED ev
    /\ UNCHANGED <<messageQueue, userMessages, ghost>>
    /\ UNCHANGED nonLoopVars

\* ---- the backend's events and the message handler ----
\* the events a backend produces: tool calls, tool results (a text, an object
\* with a diff for a path, or no result at all), file edits, terminal output
BackendMessages ==
    {[type |-> "tool-call", result |-> "none"],
     [type |-> "tool-result", result |-> "text"],
     [type |-> "tool-result", result |-> "diff"],
     [type |-> "tool-result", result |-> Undefined],
     [type |-> "fs-edit", result |-> "none"],
     [type |-> "terminal-output", result |-> "none"]}

\* a started backend produces an event
BackendEmits(b, msg) ==
    /\ Len(backendEvents) < MaxEvents
    /\ b \in 1..Len(backends)
    /\ backends[b].state = "started"
    /\ backendEvents' = Append(backendEvents,
                               [backend |-> b, type |-> msg.type, result |-> msg.result,
                                handled |-> FALSE])
    /\ UNCHANGED outbound
    /\ UNCHANGED ev
    /\ UNCHANGED loopVars
    /\ UNCHANGED gateVars
    /\ UNCHANGED <<syncVars, inboxVars>>

\* KimiDiffProcessor.processDiff: the messages it sends and the diffs it holds
\* afterwards
processDiff(previousDiffs, path, unifiedDiff) ==
    [sent |-> IF path \in DOMAIN previousDiffs /\ previousDiffs[path] = unifiedDiff
              THEN <<>>
              ELSE <<[type |-> "tool-call", name |-> "KimiDiff"],
                     [type |-> "tool-call-result", name |-> "KimiDiff"]>>,
     previousDiffs |-> Put(previousDiffs, path, unifiedDiff)]

\* the handler of setupKimiMessageHandler for one event: the messages it sends
\* and the diffs the diff processor holds afterwards; JSON.stringify of a
\* missing tool result is undefined and the handler throws before it has sent
\* anything
HandleMessage(previousDiffs, msg) ==
    LET diffed == processDiff(previousDiffs, "p", "d1")
        plain(sent) == [sent |-> sent, previousDiffs |-> previousDiffs]
    IN CASE msg.type = "tool-call" -> plain(<<[type |-> "tool-call", name |-> "tool"]>>)
         [] msg.type = "tool-result" /\ msg.result = Undefined -> plain(<<>>)
         [] msg.type = "tool-result" /\ msg.result = "diff" ->
                [diffed EXCEPT !.sent = @ \o <<[type |-> "tool-result", name |-> "tool"]>>]
         [] msg.type = "tool-result" /\ msg.result = "text" ->
                plain(<<[type |-> "tool-result", name |-> "tool"]>>)
         [] msg.type = "fs-edit" ->
                [diffed EXCEPT !.sent = @ \o <<[type |-> "file-edit", name |-> "edit"]>>]
         [] msg.type = "terminal-output" ->
                plain(<<[type |-> "terminal-output", name |-> "data"]>>)

\* the registered handlers run in turn for one event
RECURSIVE HandlersRun(_, _, _)
HandlersRun(previousDiffs, msg, handlers) ==
    IF handlers = 0 THEN [sent |-> <<>>, previousDiffs |-> previousDiffs]
    ELSE LET first == HandleMessage(previousDiffs, msg)
             rest == HandlersRun(first.previousDiffs, msg, handlers - 1)
         IN [rest EXCEPT !.sent = first.sent \o @]

\* backend b hands the oldest of its events that the handlers have not seen
\* to the handlers registered with onMessage; each handler runs to its end
\* and sends its messages
OnMessage(b) ==
    /\ loop.pc # "exited"
    /\ b \in 1..Len(backends)
    /\ LET waiting == {i \in 1..Len(backendEvents) :
                          backendEvents[i].backend = b /\ ~backendEvents[i].handled}
       IN /\ waiting # {}
          /\ LET i == CHOOSE i \in waiting : \A j \in waiting : i <= j
                 run == HandlersRun(loop.previousDiffs, backendEvents[i],
                                    backends[b].handlers)
             IN /\ backendEvents' = [backendEvents EXCEPT ![i].handled = TRUE]
                /\ outbound' = outbound \o
                       [k \in 1..Len(run.sent) |->
                           [type |-> run.sent[k].type, name |-> run.sent[k].name,
                            cause |-> i]]
                /\ loop' = [loop EXCEPT !.previousDiffs = run.previousDiffs]
    /\ UNCHANGED ev
    /\ UNCHANGED <<messageQueue, backends, turnLog, conversationHistory, userMessages, ghost>>
    /\ UNCHANGED gateVars
    /\ UNCHANGED <<syncVars, inboxVars>>

\* ---- KimiTransport: tool names from tool call ids ----
KIMI_TOOL_PATTERNS ==
    <<[name |-> "change_title",
       patterns |-> <<Chars("change_title"), Chars("happy__change_title")>>],
      [name |-> "think", patterns |-> <<Chars("think")>>]>>

\* extractToolNameFromId returning the last tool pattern that matches
extractToolNameFromId_LastMatch(toolCallId) ==
    LET lowerId == toLowerCase(toolCallId)
        matching == {k \in 1..Len(KIMI_TOOL_PATTERNS) :
                        \E p \in 1..Len(KIMI_TOOL_PATTERNS[k].patterns) :
                           includes(lowerId, toLowerCase(KIMI_TOOL_PATTERNS[k].patterns[p]))}
    IN IF matching = {} THEN "null"
       ELSE KIMI_TOOL_PATTERNS[CHOOSE k \in matching : \A j \in matching : j <= k].name

\* KimiTransport.extractToolNameFromId on the characters of the id: the two
\* nested loops return at the first tool pattern with a matching pattern
extractToolNameFromId(toolCallId) ==
    LET lowerId == toLowerCase(toolCallId)
        matching == {k \in 1..Len(KIMI_TOOL_PATTERNS) :
                        \E p \in 1..Len(KIMI_TOOL_PATTERNS[k].patterns) :
                           includes(lowerId, toLowerCase(KIMI_TOOL_PATTERNS[k].patterns[p]))}
    IN IF matching = {} THEN "null"
       ELSE KIMI_TOOL_PATTERNS[CHOOSE k \in matching : \A j \in matching : k <= j].name

\* tool call ids: up to MaxIdParts words, cut words and separators in a row,
\* as they are and in capitals
ToolCallIds ==
    LET parts == {<<>>, <<"-", "1">>, Chars("change_title"), Chars("happy__change_title"),
                  Chars("think"), Chars("other"),
                  SubSeq(Chars("change_title"), 1, 11), SubSeq(Chars("think"), 2, 5)}
        cat[n \in 0..MaxIdParts] ==
            IF n = 0 THEN {<<>>} ELSE {a \o b : a \in parts, b \in cat[n - 1]}
        capital(c) == IF \E u \in DOMAIN LowerMap : LowerMap[u] = c
                      THEN CHOOSE u \in DOMAIN LowerMap : LowerMap[u] = c
                      ELSE c
    IN cat[MaxIdParts] \cup {[i \in 1..Len(id) |-> capital(id[i])] : id \in cat[MaxIdParts]}

\* extractToolNameFromId is called with the id of a tool call
ExtractToolName ==
    /\ ev.op = "toolCallId"
    /\ ev' = [op |-> "extractToolNameFromId", toolCallId |-> ev.toolCallId,
              name |-> extractToolNameFromId(ev.toolCallId)]
    /\ UNCHANGED loopVars
    /\ UNCHANGED gateVars
    /\ UNCHANGED nonLoopVars

\* ---- calls of emitReadyIfIdle on its own ----
\* emitReadyIfIdle is called
CallEmitReadyIfIdle ==
    /\ ev = NoEvent
    /\ LET r == emitReadyIfIdle(loop, messageQueue)
       IN ev' = [op |-> "emitReadyIfIdle", sent |-> r.sent, result |-> r.result]
    /\ UNCHANGED loopVars
    /\ UNCHANGED gateVars
    /\ UNCHANGED nonLoopVars

\* the flags and the queues emitReadyIfIdle is called under
ReadyInit ==
    /\ \E e, t, r \in BOOLEAN :
           loop = [InitialLoop EXCEPT !.shouldExit = e, !.thinking = t,
                                      !.isResponseInProgress = r]
    /\ \E n \in 0..MaxUserMessages :
           \E modes \in [1..n -> {"default", "yolo"}] :
              messageQueue = [i \in 1..n |->
                                 push(<<>>, <<TextOf(i)>>,
                                      [permissionMode |-> modes[i], model |-> Undefined,
                                       originalUserMessage |-> TextOf(i)])[1]]
    /\ backends = <<>>
    /\ turnLog = <<>>
    /\ conversationHistory = <<>>
    /\ userMessages = 0
    /\ ghost = [startedUnder |-> NullHash, prev |-> NoTurn, turn |-> NoTurn, fatal |-> {},
                ended |-> {}, deltas |-> <<>>]
    /\ backendEvents = <<>>
    /\ outbound = <<>>

\* ---- events on the socket of the session ----
\* the events one synchronous stretch of code emits on the socket of `session`
Emit(events, session) == [op |-> "emit", events |-> events, channel |-> session]

\* the callback of keepAliveInterval: the timer runs from the start of runKimi
\* until clearInterval at the end of the final cleanup or until the process
\* exits; a volatile emit on a closed socket is dropped
KeepAliveTick ==
    /\ loop.pc # "exited"
    /\ ev' = Emit(<<"session-alive">>, loop.session)
    /\ UNCHANGED loopVars
    /\ UNCHANGED gateVars
    /\ UNCHANGED nonLoopVars

\* the final cleanup after the loop is left, up to its first await:
\* sendSessionDeath, and flush emits its ping and waits for the answer
FinalCleanup ==
    /\ loop.pc = "cleanup"
    /\ ~loop.closing
    /\ loop' = [loop EXCEPT !.closing = TRUE]
    /\ ev' = Emit(<<"session-end", "ping">>, loop.session)
    /\ ghost' = [ghost EXCEPT !.ended = @ \cup {loop.session}]
    /\ UNCHANGED <<messageQueue, backends, turnLog, conversationHistory, userMessages>>
    /\ UNCHANGED gateVars
    /\ UNCHANGED nonLoopVars

\* the flush has settled: the socket is closed, the backend disposed and the
\* keep-alive timer cleared
FinalCleanupClosed ==
    /\ loop.pc = "cleanup"
    /\ loop.closing
    /\ loop' = [loop EXCEPT !.pc = "exited"]
    /\ IF loop.kimiBackend # NoBackend
       THEN /\ turnLog' = Append(turnLog, [op |-> "dispose", backend |-> loop.kimiBackend,
                                           by |-> "cleanup"])
            /\ backends' = dispose(backends, loop.kimiBackend)
       ELSE UNCHANGED <<turnLog, backends>>
    /\ UNCHANGED ev
    /\ UNCHANGED <<messageQueue, conversationHistory, userMessages, ghost>>
    /\ UNCHANGED gateVars
    /\ UNCHANGED nonLoopVars

\* ---- the kill handler ----
\* handleKillSession up to its first await: handleAbort is called
KillSession ==
    /\ loop.pc # "exited"
    /\ loop.kill = "idle"
    /\ loop' = [AbortEffect(loop) EXCEPT !.kill = "closing"]
    /\ messageQueue' = <<>>
    /\ UNCHANGED ev
    /\ UNCHANGED <<backends, turnLog, conversationHistory, userMessages, ghost>>
    /\ UNCHANGED gateVars
    /\ UNCHANGED nonLoopVars

\* handleAbort has returned: sendSessionDeath, and flush emits its ping and
\* waits for the answer
KillSessionDeath ==
    /\ loop.kill = "closing"
    /\ loop.cancelling = 0
    /\ loop' = [loop EXCEPT !.kill = "flushing"]
    /\ ev' = Emit(<<"session-end", "ping">>, loop.session)
    /\ ghost' = [ghost EXCEPT !.ended = @ \cup {loop.session}]
    /\ UNCHANGED <<messageQueue, backends, turnLog, conversationHistory, userMessages>>
    /\ UNCHANGED gateVars
    /\ UNCHANGED nonLoopVars

\* the flush has settled and the session is closed: the backend held at that
\* moment is disposed and the process exits
KillDispose ==
    /\ loop.kill = "flushing"
    /\ loop' = [loop EXCEPT !.kill = "done", !.pc = "exited"]
    /\ IF loop.kimiBackend # NoBackend
       THEN /\ turnLog' = Append(turnLog, [op |-> "dispose", backend |-> loop.kimiBackend,
                                           by |-> "kill"])
            /\ backends' = dispose(backends, loop.kimiBackend)
       ELSE UNCHANGED <<turnLog, backends>>
    /\ UNCHANGED ev
    /\ UNCHANGED <<messageQueue, conversationHistory, userMessages, ghost>>
    /\ UNCHANGED gateVars
    /\ UNCHANGED nonLoopVars

LoopStep ==
    \/ \E pm \in MetaPermissionModes, m \in MetaModels, sp \in MetaSystemPrompts :
          OnUserMessage(pm, m, sp)
    \/ \E d \in TextDeltas : OnModelOutput(d)
    \/ Dequeue
    \/ \E ok \in BOOLEAN : McDisposeDone(ok)
    \/ \E ok \in BOOLEAN : McStartDone(ok)
    \/ \E ok \in BOOLEAN : StartDone(ok)
    \* the catch treats every rejection alike; which error it was is followed
    \* in BridgeStep
    \/ \E outcome \in {"ok", "aborted"} : SendDone(outcome)
    \/ \E settled \in {"complete", "rejected"} : ResponseDone(settled)
    \/ FinalCleanup
    \/ FinalCleanupClosed

\* the orchestrator with its exit, kill, swap and error inputs; user messages
\* either keep the model or name one
BridgeModels == {Absent, "m1"}

BridgeStep ==
    \/ \E m \in BridgeModels : OnUserMessage(Absent, m, "sys")
    \/ handleAbort
    \/ CancelDone
    \/ OnExit
    \/ KillSession
    \/ KillSessionDeath
    \/ KillDispose
    \/ KeepAliveTick
    \/ OnSessionSwap
    \/ OnStatusError
    \/ Dequeue
    \/ \E ok \in BOOLEAN : McDisposeDone(ok)
    \/ \E ok \in BOOLEAN : McStartDone(ok)
    \/ \E ok \in BOOLEAN : StartDone(ok)
    \/ \E outcome \in Outcomes : SendDone(outcome)
    \/ \E settled \in {"complete", "rejected"} : ResponseDone(settled)
    \/ FinalCleanup
    \/ FinalCleanupClosed

\* the backends from construction to disposal: turns, mode-change restarts,
\* exit, kill and the final cleanup
LifecycleStep ==
    \/ \E m \in BridgeModels : OnUserMessage(Absent, m, "sys")
    \/ Dequeue
    \/ \E ok \in BOOLEAN : McDisposeDone(ok)
    \/ \E ok \in BOOLEAN : McStartDone(ok)
    \/ \E ok \in BOOLEAN : StartDone(ok)
    \/ \E outcome \in {"ok", "error"} : SendDone(outcome)
    \/ ResponseDone("complete")
    \/ OnExit
    \/ CancelDone
    \/ KillSession
    \/ KillSessionDeath
    \/ KillDispose
    \/ FinalCleanup
    \/ FinalCleanupClosed

\* turns with the tool calls their backend raises and aborts; a user message
\* keeps the permission mode or asks for yolo
TurnGateStep ==
    \/ \E pm \in {Absent, "yolo"} : OnUserMessage(pm, Absent, "sys")
    \/ Dequeue
    \/ \E ok \in BOOLEAN : StartDone(ok)
    \/ \E outcome \in Outcomes : SendDone(outcome)
    \/ \E settled \in {"complete", "rejected"} : ResponseDone(settled)
    \/ handleAbort
    \/ CancelDone
    \/ (SessionActive /\ handleToolCall("write-123", "writeFile"))
    \/ (SessionActive /\ handleToolCall("think-123", "think"))

\* turns of one mode with the output and the status events of their backend,
\* prompts that end well, aborted or in error, and waits that end by
\* completion, by timeout or by rejection
TurnStep ==
    \/ OnUserMessage(Absent, Absent, "sys")
    \/ Dequeue
    \/ \E ok \in BOOLEAN : StartDone(ok)
    \/ \E outcome \in Outcomes : SendDone(outcome)
    \/ \E settled \in {"complete", "timeout", "rejected"} : ResponseDone(settled)
    \/ \E d \in TextDeltas : OnModelOutput(d)
    \/ OnStatusRunning
    \/ OnStatusError

\* prompts of ordinary and of over-long texts around a mode-change restart
RestartTexts == {"t1", "XL"}

RestartStep ==
    \/ \E m \in BridgeModels, text \in RestartTexts :
           /\ userMessages < MaxRestartMessages
           /\ UserMessageCallback(Absent, m, Absent, text)
    \/ Dequeue
    \/ McDisposeDone(TRUE)
    \/ McStartDone(TRUE)
    \/ StartDone(TRUE)
    \/ SendDone("ok")
    \/ ResponseDone("complete")

\* turns, a mode-change restart and the events of the backends
EventStep ==
    \/ \E m \in BridgeModels : OnUserMessage(Absent, m, "sys")
    \/ Dequeue
    \/ McDisposeDone(TRUE)
    \/ McStartDone(TRUE)
    \/ StartDone(TRUE)
    \/ SendDone("ok")
    \/ ResponseDone("complete")
    \/ \E b \in 1..MaxUserMessages, msg \in BackendMessages : BackendEmits(b, msg)
    \/ \E b \in 1..MaxUserMessages : OnMessage(b)

\* ---- the two places where the orchestrator records into the history ----
UserContents == {<<"t1">>, <<"XL">>}
AssistantContents == {<<"L">>, <<" ">>}

\* the user-message handler records the original user text
RecordUserMessage(content) ==
    /\ conversationHistory' = addUserMessage(conversationHistory, content)
    /\ ev' = [op |-> "addUserMessage", entry |-> [role |-> "user", content |-> content],
              evicted |-> Len(conversationHistory) + 1 - Len(conversationHistory')]
    /\ UNCHANGED <<loop, messageQueue, backends, turnLog, userMessages, ghost>>
    /\ UNCHANGED gateVars
    /\ UNCHANGED nonLoopVars

\* the end of a turn records the accumulated response unless it is blank
RecordAssistantMessage(accumulatedResponse) ==
    /\ trimNonEmpty(accumulatedResponse)
    /\ conversationHistory' = addAssistantMessage(conversationHistory, accumulatedResponse)
    /\ ev' = [op |-> "addAssistantMessage",
              entry |-> [role |-> "assistant", content |-> accumulatedResponse],
              evicted |-> Len(conversationHistory) + 1 - Len(conversationHistory')]
    /\ UNCHANGED <<loop, messageQueue, backends, turnLog, userMessages, ghost>>
    /\ UNCHANGED gateVars
    /\ UNCHANGED nonLoopVars

HistoryStep ==
    \/ \E content \in UserContents : RecordUserMessage(content)
    \/ \E content \in AssistantContents : RecordAssistantMessage(content)

\* ---- the Kimi backend factory: the model and where it was taken from ----
DEFAULT_KIMI_MODEL == "kimi-latest"

\* determineKimiModel: env is process.env, an unset variable reads as undefined;
\* a || b is b when a is undefined, null or the empty string
determineKimiModel(explicitModel, localConfig, env) ==
    LET falsy == {Undefined, NullModel, ""}
    IN IF explicitModel # Undefined
       THEN IF explicitModel = NullModel
            THEN IF env.KIMI_MODEL \notin falsy THEN env.KIMI_MODEL ELSE DEFAULT_KIMI_MODEL
            ELSE explicitModel
       ELSE IF env.KIMI_MODEL \notin falsy THEN env.KIMI_MODEL
            ELSE IF localConfig.model \notin falsy THEN localConfig.model
            ELSE DEFAULT_KIMI_MODEL

getKimiModelSource(explicitModel, localConfig, env) ==
    LET falsy == {Undefined, NullModel, ""}
    IN IF explicitModel # Undefined /\ explicitModel # NullModel THEN "explicit"
       ELSE IF env.KIMI_MODEL \notin falsy THEN "env-var"
       ELSE IF localConfig.model \notin falsy THEN "local-config"
       ELSE "default"

\* the KimiBackendResult of createKimiBackend(options), with the API key and
\* the model the backend's environment is given
KimiBackendResult(options, localConfig, env) ==
    LET falsy == {Undefined, NullModel, ""}
        apiKey == IF options.apiKey \notin falsy THEN options.apiKey
                  ELSE IF localConfig.token \notin falsy THEN localConfig.token
                  ELSE env.KIMI_API_KEY
        model == determineKimiModel(options.model, localConfig, env)
    IN [backendEnv |-> [KIMI_API_KEY |-> IF apiKey \notin falsy THEN apiKey ELSE Undefined,
                        KIMI_MODEL |-> model],
        model |-> model,
        modelSource |-> getKimiModelSource(options.model, localConfig, env)]

\* one call of the factory
CallCreateKimiBackend ==
    /\ ev.op = "options"
    /\ ev' = [op |-> "createKimiBackend", options |-> ev.options,
              localConfig |-> ev.localConfig, env |-> ev.env,
              result |-> KimiBackendResult(ev.options, ev.localConfig, ev.env)]
    /\ UNCHANGED <<syncVars, gateVars, loopVars, inboxVars, wireVars>>

\* ------------------------------------------------------------------------
\* Specifications
\* ------------------------------------------------------------------------
\* the bridge when runKimi has reached its main loop
InitLoop == SyncInit /\ GateInit /\ LoopInit /\ InboxInit /\ ev = NoEvent

SpecSync == InitLoop /\ [][SyncStep]_vars

\* the same with a relay that answers every request and never with a hard
\* error, a socket that delivers every answer, and a lock holder that keeps
\* attempting
NextSyncFair ==
    \/ \E g \in Groups : CallUpdate(g, HandlerOf(issued + 1))
    \/ \E g \in Groups : SendUpdate(g)
    \/ \E g \in Groups : OnAnswer(g)
    \/ \E mv \in -1..relay["metadata"].version, av \in -1..relay["agentState"].version :
          OnUpdateSession(mv, av)
    \/ OnUpdateMachine
    \/ \E g \in Groups : RelayHandle(g, FALSE)
    \/ \E g \in Groups, clear \in BOOLEAN : RemoteWrite(g, clear)
SpecSyncFair ==
    /\ InitLoop
    /\ [][NextSyncFair]_vars
    /\ \A g \in Groups : WF_vars(SendUpdate(g))
    /\ \A g \in Groups : WF_vars(RelayHandle(g, FALSE))
    /\ \A g \in Groups : WF_vars(OnAnswer(g))

SpecGate == InitLoop /\ [][GateStep]_vars

SpecLoop == InitLoop /\ [][LoopStep]_vars

SpecBridge == InitLoop /\ [][BridgeStep]_vars

\* the same with a loop that runs when it can and awaited backend calls that
\* settle, one way or the other
SpecBridgeFair ==
    /\ SpecBridge
    /\ WF_vars(Dequeue)
    /\ WF_vars(CancelDone)
    /\ WF_vars(\E ok \in BOOLEAN : McDisposeDone(ok))
    /\ WF_vars(\E ok \in BOOLEAN : McStartDone(ok))
    /\ WF_vars(\E ok \in BOOLEAN : StartDone(ok))
    /\ WF_vars(\E outcome \in Outcomes : SendDone(outcome))
    /\ WF_vars(\E settled \in {"complete", "rejected"} : ResponseDone(settled))

SpecLifecycle == InitLoop /\ [][LifecycleStep]_vars

SpecTurnGate == InitLoop /\ [][TurnGateStep]_vars

\* the same with a backend whose cancel settles, as its contract demands;
\* nothing makes the turn in flight end
SpecTurnGateFair == SpecTurnGate /\ WF_vars(CancelDone)

SpecTurn == InitLoop /\ [][TurnStep]_vars

SpecRestart == InitLoop /\ [][RestartStep]_vars

SpecEvents == InitLoop /\ [][EventStep]_vars

InitTransport ==
    /\ SyncInit /\ GateInit /\ LoopInit /\ InboxInit
    /\ ev \in {[op |-> "toolCallId", toolCallId |-> id] : id \in ToolCallIds}
SpecTransport == InitTransport /\ [][ExtractToolName]_vars

InitReady == SyncInit /\ GateInit /\ ReadyInit /\ InboxInit /\ ev = NoEvent
SpecReady == InitReady /\ [][CallEmitReadyIfIdle]_vars

InitInbox == SyncInit /\ GateInit /\ LoopInit /\ InboxCreated /\ ev = NoEvent
SpecInbox == InitInbox /\ [][InboxStep]_vars

SpecHistory == InitLoop /\ [][HistoryStep]_vars

\* the factory called with any options, under any environment and local config
InitFactory ==
    /\ SyncInit /\ GateInit /\ LoopInit /\ InboxInit
    /\ \E model \in {Undefined, NullModel, "", "m1"}, apiKey \in {Undefined, "k1"},
          envModel \in {Undefined, "", "e1"}, envKey \in {Undefined, "k2"},
          configModel \in {NullModel, "c1"}, token \in {NullModel, "k3"} :
           ev = [op |-> "options",
                 options |-> [model |-> model, apiKey |-> apiKey],
                 localConfig |-> [token |-> token, model |-> configModel],
                 env |-> [KIMI_MODEL |-> envModel, KIMI_API_KEY |-> envKey]]
SpecFactory == InitFactory /\ [][CallCreateKimiBackend]_vars

\* ------------------------------------------------------------------------
\* Claims on the Session State Channel
\* ------------------------------------------------------------------------
\* the locally held (value, version) pair of each field-group is one the relay held
PairHeld ==
    /\ metadata = decrypt(HeldAt("metadata", metadataVersion))
    /\ agentState = Unwire(HeldAt("agentState", agentStateVersion))

\* C1: under every interleaving of updateMetadata/updateAgentState calls, their
\* answers and update-session envelopes, metadataVersion and agentStateVersion
\* never decrease and the local (value, version) pair is one the relay held.
C1_VersionMonotoneAndHeld ==
    [][ /\ metadataVersion' >= metadataVersion
        /\ agentStateVersion' >= agentStateVersion
        /\ PairHeld' ]_vars

\* C2: an update-session envelope whose version for a field-group is less than or
\* equal to the local version (or that carries no snapshot of it) leaves that
\* group's local value and version unchanged; a strictly greater version replaces
\* both by the envelope's snapshot.
C2_StaleEnvelopeDiscarded ==
    [][ ev'.op = "update-session" =>
          /\ IF ev'.mv > metadataVersion
             THEN /\ metadataVersion' = ev'.mv
                  /\ metadata' = decrypt(HeldAt("metadata", ev'.mv))
             ELSE /\ metadataVersion' = metadataVersion
                  /\ metadata' = metadata
          /\ IF ev'.av > agentStateVersion
             THEN /\ agentStateVersion' = ev'.av
                  /\ agentState' = Unwire(HeldAt("agentState", ev'.av))
             ELSE /\ agentStateVersion' = agentStateVersion
                  /\ agentState' = agentState ]_vars

\* an envelope older than the local state of both field-groups has been handled
C2_Witness ==
    /\ ev.op = "update-session"
    /\ ev.mv >= 0 /\ ev.mv < metadataVersion
    /\ ev.av >= 0 /\ ev.av < agentStateVersion

\* C12: for each field-group at most one optimistic write of this process is
\* outstanding (sent and its answer not yet handled), however many calls queue.
C12_OneOutstandingWrite ==
    \A g \in Groups :
        /\ Len(request[g]) + Len(answer[g]) <= 1
        /\ Cardinality({i \in 1..Len(lockQueue[g]) : lockQueue[g][i].awaiting}) <= 1

\* two calls on one field-group are queued while a write of the first is outstanding
C12_Witness ==
    \E g \in Groups :
        /\ Len(lockQueue[g]) >= 2
        /\ Len(request[g]) + Len(answer[g]) = 1

\* the value an answer or envelope carries, decoded
Decoded(c) == IF c = Null THEN Null ELSE c[2]

\* the call of handler h of field-group g is queued and may attempt again
Retryable(q, h) ==
    \E i \in 1..Len(q) : q[i].h = h /\ ~q[i].awaiting

\* the pair held for a field-group after the step
NextVersion(g) == IF g = "metadata" THEN metadataVersion' ELSE agentStateVersion'
NextValue(g) == IF g = "metadata" THEN metadata' ELSE agentState'

\* an attempt that follows a version-mismatch answer applies the handler to the
\* held value and sends the held version as expectedVersion
RetryUsesHeld ==
    (ev'.op = "send" /\ \E i \in 1..Len(lockQueue[ev'.g]) :
                            lockQueue[ev'.g][i].h = ev'.h /\ lockQueue[ev'.g][i].mismatch # -1)
    => LET g == ev'.g
           r == request'[g][Len(request'[g])]
           held == IF g = "metadata" THEN metadata ELSE agentState
       IN /\ r.h = ev'.h
          /\ r.expectedVersion = (IF g = "metadata" THEN metadataVersion
                                                     ELSE agentStateVersion)
          /\ Decoded(r.value) = Append(IF held = Null THEN <<>> ELSE held, ev'.h)

\* C13 as stated: every version-mismatch answer is adopted (value and version),
\* the attempt stays retryable, and the retry uses the adopted pair.
C13_MismatchAdoptedAsStated ==
    [][ /\ (ev'.op = "answer" /\ ev'.result = "version-mismatch") =>
              /\ NextVersion(ev'.g) = ev'.version
              /\ NextValue(ev'.g) = Decoded(ev'.value)
              /\ Retryable(lockQueue'[ev'.g], ev'.h)
        /\ RetryUsesHeld ]_vars

\* C13: a version-mismatch answer that is newer than the held version is
\* adopted (value and version); an answer that is not newer leaves the held
\* pair alone; either way the attempt fails retryably (the call keeps its place
\* and attempts again), and the next attempt applies the handler to the held
\* value and sends the held version as expectedVersion.
C13_MismatchAdopted ==
    [][ /\ (ev'.op = "answer" /\ ev'.result = "version-mismatch") =>
              /\ ev'.version > LocalVersion(ev'.g) =>
                    /\ NextVersion(ev'.g) = ev'.version
                    /\ NextValue(ev'.g) = Decoded(ev'.value)
              /\ ev'.version <= LocalVersion(ev'.g) =>
                    /\ NextVersion(ev'.g) = LocalVersion(ev'.g)
                    /\ NextValue(ev'.g) = LocalValue(ev'.g)
              /\ Retryable(lockQueue'[ev'.g], ev'.h)
              /\ lockQueue'[ev'.g][1].h = lockQueue[ev'.g][1].h
        /\ RetryUsesHeld ]_vars

\* a retry was sent with the version a version-mismatch answer carried
C13_Witness ==
    /\ ev.op = "send"
    /\ \E i \in 1..Len(lockQueue[ev.g]) :
          /\ lockQueue[ev.g][i].h = ev.h
          /\ lockQueue[ev.g][i].mismatch # -1
          /\ request[ev.g][Len(request[ev.g])].expectedVersion = lockQueue[ev.g][i].mismatch

\* a version-mismatch answer older than the held version was handled
StaleMismatchHandled ==
    /\ ev.op = "answer"
    /\ ev.result = "version-mismatch"
    /\ ev.version < LocalVersion(ev.g)

\* the handlers of the calls the bridge can issue
HandlerTags == {"b1", "b2", "b3", "b4"}

\* the call of handler h waits for or holds a lock
Queued(h) == \E g \in Groups : \E i \in 1..Len(lockQueue[g]) : lockQueue[g][i].h = h

\* the relay accepted a write of the call of handler h
Accepted(h) ==
    \E g \in Groups : \E v \in 1..Len(relayLog[g]) :
        /\ relayLog[g][v] # Null
        /\ \E k \in 1..Len(relayLog[g][v][2]) : relayLog[g][v][2][k] = h

\* the relay handles the retry that follows a version-mismatch answer and has
\* accepted no write to the field-group since it gave that answer
RetryUndisturbed ==
    /\ ev'.op = "relay"
    /\ \E i \in 1..Len(lockQueue[ev'.g]) :
          /\ lockQueue[ev'.g][i].h = ev'.h
          /\ lockQueue[ev'.g][i].mismatch = relay[ev'.g].version

\* C14: the retry that follows a version-mismatch answer is accepted by the
\* relay when no other writer changed the field-group in the meantime; with a
\* relay that answers (never with a hard error) a call leaves its lock only
\* once the relay accepted its write, and whenever calls are queued a state
\* follows in which every one of them has left, so every call is accepted.
C14_ConflictSelfHeals ==
    /\ [][RetryUndisturbed => ev'.result = "success"]_vars
    /\ [][\A h \in HandlerTags : (Queued(h) /\ ~Queued(h)') => Accepted(h)']_vars
    /\ (\E h \in HandlerTags : Queued(h)) ~> (\A h \in HandlerTags : ~Queued(h))

\* the retry of a call that met a version conflict was accepted
C14_Witness ==
    /\ ev.op = "relay"
    /\ ev.result = "success"
    /\ \E i \in 1..Len(lockQueue[ev.g]) :
          lockQueue[ev.g][i].h = ev.h /\ lockQueue[ev.g][i].mismatch # -1

\* C15: when a hard error answer is handled the write is dropped: the held
\* value and version of the field-group do not change, the call leaves the lock
\* and nothing of it stays in flight (no retry), and the next queued call, if
\* any, holds the lock and is free to attempt.
C15_HardErrorDropsWrite ==
    [][(ev'.op = "answer" /\ ev'.result = "error") =>
         LET g == ev'.g IN
           /\ NextVersion(g) = LocalVersion(g)
           /\ NextValue(g) = LocalValue(g)
           /\ \A gg \in Groups : \A i \in 1..Len(lockQueue'[gg]) :
                 lockQueue'[gg][i].h # ev'.h
           /\ \A i \in 1..Len(request'[g]) : request'[g][i].h # ev'.h
           /\ \A i \in 1..Len(answer'[g]) : answer'[g][i].h # ev'.h
           /\ Len(lockQueue[g]) >= 2 =>
                 /\ lockQueue'[g][1].h = lockQueue[g][2].h
                 /\ ~lockQueue'[g][1].awaiting ]_vars

\* a hard error answer was handled while another call waited for the lock
C15_Witness ==
    /\ ev.op = "answer"
    /\ ev.result = "error"
    /\ lockQueue[ev.g] # <<>>

\* after a call was dropped on a hard error a later call was accepted
AcceptedAfterDrop ==
    /\ issued >= 2
    /\ ~Queued("b1") /\ ~Accepted("b1")
    /\ Accepted("b2")

\* ------------------------------------------------------------------------
\* Claims on the user-message inbox
\* ------------------------------------------------------------------------
\* the receipt numbers handed to the consumer so far
HandedOver == {delivered[i] : i \in 1..Len(delivered)}

\* C16: user messages that arrive before a consumer is attached are buffered;
\* once the consumer is attached every message received so far has been
\* handed to it, each exactly once and in the order of receipt, so before any
\* message that arrives later
C16_BufferedDeliveredInOrder ==
    /\ \A i, j \in 1..Len(delivered) : i < j => delivered[i] < delivered[j]
    /\ pendingMessageCallback => HandedOver = 1..userMessages

\* two messages were buffered and the consumer was attached
C16_Attached ==
    /\ pendingMessageCallback
    /\ userMessages = 2
    /\ delivered = <<1>>
    /\ pendingMessages # <<>>

\* the relay accepts a write of the bridge in this step
BridgeWriteAccepted(g) ==
    /\ relay'[g] # relay[g]
    /\ ev' # ev
    /\ ev'.op = "relay"

\* the tags of the remote party's writes in a value, in order
RemoteTags(v) ==
    IF v = Null THEN <<>> ELSE SelectSeq(v, LAMBDA x : x = "r")

\* C34: a write of the bridge that the relay accepts is fn applied to the
\* value the relay held at the expected version (an absent agentState read
\* as the empty state), which is the value it held right before the write:
\* every write of the remote party made up to then is kept
C34_NoLostUpdate ==
    [][\A g \in Groups :
          BridgeWriteAccepted(g) =>
             LET r == Head(request[g])
                 before == IF relay[g].value = Null THEN Null ELSE relay[g].value[2]
                 at == IF HeldAt(g, r.expectedVersion) = Null THEN Null
                       ELSE HeldAt(g, r.expectedVersion)[2]
                 written == relay'[g].value[2]
             IN /\ r.expectedVersion = relay[g].version
                /\ at = before
                /\ written = (IF at = Null THEN <<>> ELSE at) \o <<r.h>>
                /\ RemoteTags(written) = RemoteTags(before)]_vars

\* the relay has accepted a write of the bridge on top of a write of the
\* remote party
C34_Witness ==
    \E g \in Groups :
       /\ ev.op = "relay" /\ ev.g = g /\ ev.result = "success"
       /\ relay[g].value # Null
       /\ RemoteTags(relay[g].value[2]) # <<>>
       /\ relay[g].value[2][Len(relay[g].value[2])] = ev.h
       /\ \E v \in 1..Len(relayLog[g]) :
              /\ relayLog[g][v] # Null
              /\ RemoteTags(relayLog[g][v][2]) # <<>>
              /\ v < Len(relayLog[g])

\* ------------------------------------------------------------------------
\* Claims on the Permission Gate
\* ------------------------------------------------------------------------
\* the last handler was handleToolCall
IsToolCall(e) == e.op = "handleToolCall"

\* the calls of the model the claims count as in the always-auto-approve set
\* (title-change, reasoning and memory-save tools by name; change_title and
\* save_memory by call id), and the tool names that carry a write keyword
InAlwaysSet(e) ==
    \/ e.toolName \in {"change_title", "happy__change_title", "KimiReasoning", "think",
                       "save_memory"}
    \/ e.callId \in {"change_title-abc123", "save_memory-123"}
HasWriteKeyword(e) == e.toolName \in {"writeFile", "Edit"}

\* C5: a tool call whose tool name or call id matches the always-auto-approve set
\* is decided `approved` in every permission mode.
C5_AlwaysSetApproved ==
    (IsToolCall(ev) /\ InAlwaysSet(ev))
        => ev.decision = "approved"

\* C6: in yolo mode every tool call outside the always-auto-approve set is decided
\* approved_for_session, in safe-yolo mode every tool call is decided approved, and
\* in neither mode is the decision pending.
C6_YoloNeverPending ==
    IsToolCall(ev) =>
        /\ (ev.mode = "yolo" /\ ~InAlwaysSet(ev))
              => ev.decision = "approved_for_session"
        /\ ev.mode = "safe-yolo" => ev.decision = "approved"
        /\ ev.mode \in {"yolo", "safe-yolo"} => ev.decision # "pending"

\* writeFile has just been decided in yolo mode
C6_Witness ==
    /\ IsToolCall(ev)
    /\ ev.mode = "yolo"
    /\ ev.toolName = "writeFile"
    /\ ev.decision = "approved_for_session"

\* a Pending Permission Request for the last tool call is recorded under its call id
PendingRecorded ==
    /\ ev.callId \in DOMAIN pendingRequests
    /\ pendingRequests[ev.callId].toolName = ev.toolName
    /\ promises[pendingRequests[ev.callId].promise].state = "pending"

\* C7 as stated: in read-only mode a tool call is decided approved unless its tool
\* name contains write, edit, create, delete, patch or fs-edit, and then it is pending
\* and recorded.
C7_ReadOnlyAsStated ==
    (IsToolCall(ev) /\ ev.mode = "read-only") =>
        IF HasWriteKeyword(ev)
        THEN ev.decision = "pending" /\ PendingRecorded
        ELSE ev.decision = "approved"

\* C7 (amended): in read-only mode a tool call that matches the always-auto-approve
\* set by name or call id is approved; any other tool call is approved unless its
\* tool name contains (case-insensitively) write, edit, create, delete, patch or
\* fs-edit, and then it is pending and a Pending Permission Request is recorded.
C7_ReadOnly ==
    (IsToolCall(ev) /\ ev.mode = "read-only") =>
        IF ~InAlwaysSet(ev) /\ HasWriteKeyword(ev)
        THEN ev.decision = "pending" /\ PendingRecorded
        ELSE ev.decision = "approved"

\* a write tool outside the always-auto-approve set has just been decided in
\* read-only mode
C7_Witness ==
    /\ IsToolCall(ev)
    /\ ev.mode = "read-only"
    /\ ev.toolName = "writeFile"
    /\ ev.callId = "write-123"
    /\ ev.decision = "pending"

\* C8: in default mode a tool call outside the always-auto-approve set is pending:
\* it is recorded under its call id, and a pending promise is settled only by a
\* permission response or a reset.
C8_DefaultPending ==
    [][ /\ ( /\ IsToolCall(ev')
             /\ ev'.mode = "default"
             /\ ~InAlwaysSet(ev') )
            => /\ ev'.decision = "pending"
               /\ PendingRecorded'
        /\ \A i \in 1..Len(promises) :
              (promises[i].state = "pending" /\ promises'[i].state # "pending")
                 => ev'.op \in {"permission-response", "reset"} ]_vars

\* a tool outside the always-auto-approve set has just been decided in default mode
C8_Witness ==
    /\ IsToolCall(ev)
    /\ ev.mode = "default"
    /\ ev.toolName = "other"
    /\ ev.callId = "think-123"
    /\ PendingRecorded

\* C9: handling a tool call for "think" in default mode returns approved and creates
\* no Pending Permission Request, neither in the handler's map nor in
\* agentState.pendingRequests.
C9_ThinkNoPending ==
    [][ (IsToolCall(ev') /\ ev'.toolName = "think" /\ ev'.mode = "default")
           => /\ ev'.decision = "approved"
              /\ pendingRequests' = pendingRequests
              /\ promises' = promises
              /\ sessionState'.pendingRequests = sessionState.pendingRequests
              /\ ev'.callId \in DOMAIN sessionState'.completedRequests ]_vars

\* "think" has just been decided in default mode and nothing is pending for its id
C9_Witness ==
    /\ IsToolCall(ev)
    /\ ev.toolName = "think"
    /\ ev.mode = "default"
    /\ ev.callId \notin DOMAIN pendingRequests
    /\ ev.callId \notin DOMAIN sessionState.pendingRequests

\* the entries of the handler's map that were recorded for call id
PendingEntriesFor(id) ==
    {k \in DOMAIN pendingRequests : promises[pendingRequests[k].promise].callId = id}

\* C22: at every moment the handler holds at most one Pending Permission
\* Request entry per call id, also after repeated tool calls with a call id
\* that is still pending
C22_OnePendingPerCallId ==
    \A id \in {"change_title-abc123", "save_memory-123", "write-123", "think-123"} :
        Cardinality(PendingEntriesFor(id)) <= 1

\* a second tool call arrived for a call id that was still pending: the entry
\* holds the second call's promise and the first promise is still unsettled
C22_Witness ==
    /\ IsToolCall(ev)
    /\ ev.decision = "pending"
    /\ Len(promises) = 2
    /\ promises[1].callId = ev.callId
    /\ promises[1].state = "pending"
    /\ PendingEntriesFor(ev.callId) = {ev.callId}
    /\ pendingRequests[ev.callId].promise = 2

LoopOps(op) == {i \in 1..Len(turnLog) : turnLog[i].by = "loop" /\ turnLog[i].op = op}

\* the prompt of the current turn has been handed to a backend
Forwarded == LoopOps("sendPrompt") # {}

\* the current turn began with one dispose of the backend that was live, one
\* construction and one startSession of a new backend, then the forward to it
RestartedOnce ==
    LET new == ghost.turn.constructed + 1
    IN /\ Len(turnLog) >= 4
       /\ turnLog[1] = [op |-> "dispose", backend |-> ghost.turn.old, by |-> "loop"]
       /\ turnLog[2] = [op |-> "create", backend |-> new, by |-> "loop"]
       /\ turnLog[3] = [op |-> "startSession", backend |-> new, by |-> "loop"]
       /\ turnLog[4].op = "sendPrompt" /\ turnLog[4].backend = new
       /\ new # ghost.turn.old
       /\ LoopOps("sendPrompt") = {4}

\* the prompt of the current turn was dequeued while a started session was
\* live that had been started under another mode hash
RestartExpected ==
    /\ ghost.turn.known
    /\ ghost.turn.active
    /\ loop.message.hash # ghost.turn.startedUnder

\* C3: when a prompt tagged with a mode whose hash differs from the hash the
\* live session was started under is dequeued, the loop issues at most one
\* dispose (of the old backend) and one startSession (on a newly constructed
\* backend) for that prompt, and once the prompt is forwarded exactly that
\* dispose, construction and start precede the forward, in this order.
C3_RestartOnce ==
    RestartExpected =>
        /\ Cardinality(LoopOps("dispose")) <= 1
        /\ Cardinality(LoopOps("create")) <= 1
        /\ Cardinality(LoopOps("startSession")) <= 1
        /\ Forwarded => RestartedOnce

C3_Witness == RestartExpected /\ Forwarded /\ loop.pc = "wait"

SameMode(a, b) == a.permissionMode = b.permissionMode /\ a.model = b.model

PrevKnown == ghost.turn.known /\ ghost.turn.prev.known

\* C4: two queued or consecutive prompts have the same mode hash exactly when
\* their permissionMode and model agree, whatever their text; a prompt with the
\* permissionMode and model of the previous prompt causes no dispose and no
\* construction of a backend; a prompt that changes only the model while a
\* started session is live is forwarded only after a restart.
C4_HashOnlyModeAndModel ==
    /\ \A i, j \in 1..Len(messageQueue) :
          (messageQueue[i].hash = messageQueue[j].hash)
              <=> SameMode(messageQueue[i].mode, messageQueue[j].mode)
    /\ PrevKnown =>
          /\ (loop.message.hash = ghost.turn.prev.hash)
                <=> SameMode(loop.message.mode, ghost.turn.prev.mode)
          /\ SameMode(loop.message.mode, ghost.turn.prev.mode) =>
                LoopOps("dispose") = {} /\ LoopOps("create") = {}
          /\ ( /\ loop.message.mode.permissionMode = ghost.turn.prev.mode.permissionMode
               /\ loop.message.mode.model # ghost.turn.prev.mode.model
               /\ ghost.turn.active
               /\ Forwarded ) => RestartedOnce

C4_Witness ==
    /\ PrevKnown
    /\ ghost.turn.active
    /\ SameMode(loop.message.mode, ghost.turn.prev.mode)
    /\ loop.message.mode.originalUserMessage # ghost.turn.prev.mode.originalUserMessage
    /\ Forwarded

\* a prompt that changed only the model was forwarded after a restart
ModelChangeRestarted ==
    /\ PrevKnown
    /\ ghost.turn.active
    /\ loop.message.mode.permissionMode = ghost.turn.prev.mode.permissionMode
    /\ loop.message.mode.model # ghost.turn.prev.mode.model
    /\ Forwarded

\* ------------------------------------------------------------------------
\* Claims on the lifecycle of the bridge
\* ------------------------------------------------------------------------
\* this step called dispose on backend b outside the restart
DisposeCalled(b) ==
    /\ Len(turnLog') = Len(turnLog) + 1
    /\ turnLog'[Len(turnLog')].op = "dispose"
    /\ turnLog'[Len(turnLog')].backend = b

Handling == {"mc_dispose", "mc_start", "start", "send", "respond"}

\* C17: from the moment a dequeued prompt starts being handled, a mode-change
\* restart for it included, until its finally block, the session object used
\* by the orchestrator and by the permission handler does not change
C17_SessionFixedDuringTurn ==
    [][(loop.pc \in Handling /\ loop'.pc \in Handling)
          => /\ loop'.session = loop.session
             /\ loop'.permissionSession = loop.permissionSession]_vars

\* the same from isProcessingMessage = true on: a swap requested then is queued
SessionFixedWhileProcessing ==
    [][(loop.isProcessingMessage /\ loop'.isProcessingMessage)
          => /\ loop'.session = loop.session
             /\ loop'.permissionSession = loop.permissionSession]_vars

\* C18: no failure of a turn ends the bridge: the main loop is left only on
\* an explicit exit request, and the process ends only by that or by a kill
C18_OnlyKillOrExitEndsLoop ==
    /\ loop.pc = "cleanup" => loop.shouldExit
    /\ loop.pc = "exited" => (loop.shouldExit \/ loop.kill = "done")

\* the same for the awaits inside the per-turn try block alone
FailureInTryKeepsLoop ==
    [][(loop.pc \in {"start", "send", "respond"} /\ loop'.pc = "cleanup")
          => loop'.shouldExit]_vars

\* this step issued startSession or sendPrompt on backend b
Used(b) ==
    /\ turnLog' # turnLog
    /\ turnLog' # <<>>
    /\ \E i \in 1..Len(turnLog') :
          /\ i > (IF loop.pc = "wait" THEN 0 ELSE Len(turnLog))
          /\ turnLog'[i].op \in {"startSession", "sendPrompt"}
          /\ turnLog'[i].backend = b

\* C19: a backend that had a fatal error in a turn (its startSession or
\* sendPrompt failed, or it reported status error) is never started or
\* prompted again
C19_FailedBackendNeverReused ==
    [][\A b \in ghost.fatal : ~Used(b)]_vars

\* this step is the end of a turn's finally block
TurnEnded ==
    /\ loop.pc \in {"start", "send", "respond"}
    /\ loop'.pc \in {"wait", "cleanup"}

\* this step is the return of handleAbort: at once when there is no session to
\* cancel, or when the awaited cancel has settled
AbortHandled ==
    \/ loop'.aborts = loop.aborts + 1 /\ loop'.cancelling = loop.cancelling
    \/ loop'.cancelling = loop.cancelling - 1

\* C21: after each turn's finally block and after each handled abort request
\* no Pending Permission Request remains
C21_NoPendingAfterTurnOrAbort ==
    [][(TurnEnded \/ AbortHandled)
          => /\ pendingRequests' = EmptyMap
             /\ sessionState'.pendingRequests = EmptyMap]_vars

\* the same for the end of a turn alone
NoPendingAfterTurn ==
    [][TurnEnded
          => /\ pendingRequests' = EmptyMap
             /\ sessionState'.pendingRequests = EmptyMap]_vars

\* a turn with a pending request has ended and nothing is pending
PendingClearedByTurn ==
    /\ loop.pc = "wait"
    /\ Len(promises) > 0
    /\ promises[1].state = "rejected"
    /\ pendingRequests = EmptyMap

\* this step hands a prompt to the backend (sendPrompt)
PromptSent == loop.pc # "send" /\ loop'.pc = "send"

\* the model a backend for this mode is constructed with
RequestedModel(mode) ==
    CASE mode.model = Undefined -> Undefined
      [] mode.model = "" -> NullModel
      [] OTHER -> mode.model

\* C24: at each sendPrompt the backend in use is live and was constructed with
\* the model of the dequeued prompt's mode
C24_PromptToBackendOfItsMode ==
    [][PromptSent
          => /\ loop'.kimiBackend # NoBackend
             /\ backends'[loop'.kimiBackend].state = "started"
             /\ backends'[loop'.kimiBackend].model = RequestedModel(loop'.message.mode)]_vars

\* the same as long as no backend had a failed startSession or another error
PromptToBackendOfItsModeUnlessFailed ==
    [][PromptSent /\ ghost'.fatal = {}
          => /\ loop'.kimiBackend # NoBackend
             /\ backends'[loop'.kimiBackend].state = "started"
             /\ backends'[loop'.kimiBackend].model = RequestedModel(loop'.message.mode)]_vars

\* a prompt of another model has been sent to a backend made by a restart
PromptSentAfterRestart ==
    /\ loop.pc = "send"
    /\ loop.kimiBackend = 2
    /\ backends[2].model = "m1"
    /\ backends[1].state = "disposed"
    /\ ghost.fatal = {}

\* the turn in progress went through the mode-change restart
Restarted(log) ==
    \E i \in 1..Len(log) : log[i].op = "dispose" /\ log[i].by = "loop"

RestartWithoutPreamble ==
    /\ loop.pc = "send"
    /\ Restarted(turnLog)
    /\ ~ghost.turn.hadHistory
    /\ turnLog[Len(turnLog)].prompt = loop.message.message

\* C26: emitReadyIfIdle emits ready if and only if exit was not requested,
\* thinking is false, no response is in progress and the message queue is
\* empty, and it returns true exactly when it emitted
C26_ReadyIffIdleAndDrained ==
    [][ev'.op = "emitReadyIfIdle"
          => LET idle == /\ ~loop.shouldExit
                         /\ ~loop.thinking
                         /\ ~loop.isResponseInProgress
                         /\ messageQueue = <<>>
             IN /\ ev'.sent = IF idle THEN <<"ready">> ELSE <<>>
                /\ ev'.result = (ev'.sent = <<"ready">>)]_vars

\* ready has been emitted and true returned
C26_Witness ==
    /\ ev = [op |-> "emitReadyIfIdle", sent |-> <<"ready">>, result |-> TRUE]
    /\ messageQueue = <<>>

\* with nothing but a queued prompt in the way, ready has not been emitted
ReadyHeldBackByQueue ==
    /\ ev = [op |-> "emitReadyIfIdle", sent |-> <<>>, result |-> FALSE]
    /\ ~loop.shouldExit /\ ~loop.thinking /\ ~loop.isResponseInProgress
    /\ Len(messageQueue) = 2

\* C27: once session-end has been sent on a channel, no further event is sent
\* on that channel, in particular no session-alive
C27_SessionEndTerminal ==
    [][ev' # ev /\ ev'.op = "emit" => ev'.channel \notin ghost.ended]_vars

\* the outbound message that carries an event of this type
CarriedAs(type) ==
    CASE type = "tool-call" -> "tool-call"
      [] type = "tool-result" -> "tool-result"
      [] type = "fs-edit" -> "file-edit"
      [] type = "terminal-output" -> "terminal-output"

\* the outbound messages that carry an event itself (not the KimiDiff pair)
Carriers ==
    {i \in 1..Len(outbound) :
        /\ outbound[i].type \in {"tool-call", "tool-result", "file-edit", "terminal-output"}
        /\ outbound[i].name # "KimiDiff"}

\* C28: the handlers of a backend see its events in the order of production,
\* one consumer per backend: every outbound tool-call, tool-result, file-edit
\* and terminal-output message carries an event of its type, no event is
\* carried twice, and the messages of one backend follow each other in the
\* order in which the backend produced their events
C28_OutboundInEventOrder ==
    /\ \A i, j \in 1..Len(backendEvents) :
           (i < j /\ backendEvents[i].backend = backendEvents[j].backend
                  /\ backendEvents[j].handled) => backendEvents[i].handled
    /\ \A i \in Carriers :
           outbound[i].type = CarriedAs(backendEvents[outbound[i].cause].type)
    /\ \A i, j \in 1..Len(outbound) :
           (i < j /\ backendEvents[outbound[i].cause].backend
                        = backendEvents[outbound[j].cause].backend)
              => /\ outbound[i].cause <= outbound[j].cause
                 /\ (i \in Carriers /\ j \in Carriers)
                        => outbound[i].cause < outbound[j].cause

\* two events of one backend have been carried to the remote party
C28_Witness ==
    /\ Len(backendEvents) = 2
    /\ backendEvents[1].backend = backendEvents[2].backend
    /\ backendEvents[1].type # backendEvents[2].type
    /\ \E i, j \in Carriers : outbound[i].cause = 1 /\ outbound[j].cause = 2

\* an event of the backend made by a restart has been carried before an older
\* event of the backend it replaced
EventsOfTwoBackendsCarried ==
    /\ Len(backendEvents) = 2
    /\ backendEvents[1].backend = 1
    /\ backendEvents[2].backend = 2
    /\ \E i, j \in Carriers : i < j /\ outbound[i].cause = 2 /\ outbound[j].cause = 1

\* a tool result without a result has been handled and nothing was sent for it
MissingResultNotCarried ==
    /\ Len(backendEvents) = 1
    /\ backendEvents[1].handled
    /\ backendEvents[1].result = Undefined
    /\ outbound = <<>>

\* the word occurs in the id, letters compared without regard to case
OccursIn(id, word) ==
    \E at \in 0..(Len(id) - Len(word)) :
       \A i \in 1..Len(word) :
          \/ id[at + i] = word[i]
          \/ id[at + i] \in DOMAIN LowerMap /\ LowerMap[id[at + i]] = word[i]

\* C29: extractToolNameFromId returns the name of the first tool pattern, in
\* declaration order (change_title before think), of which some match pattern
\* is a case-insensitive substring of the id, and null when none matches
C29_FirstDeclaredPatternWins ==
    ev.op = "extractToolNameFromId"
       => ev.name =
             IF \/ OccursIn(ev.toolCallId, <<"c", "h", "a", "n", "g", "e", "_",
                                             "t", "i", "t", "l", "e">>)
                \/ OccursIn(ev.toolCallId, <<"h", "a", "p", "p", "y", "_", "_", "c", "h", "a",
                                             "n", "g", "e", "_", "t", "i", "t", "l", "e">>)
             THEN "change_title"
             ELSE IF OccursIn(ev.toolCallId, <<"t", "h", "i", "n", "k">>)
                  THEN "think"
                  ELSE "null"

\* an id in capitals that names think before change_title has given change_title
C29_Witness ==
    /\ ev.op = "extractToolNameFromId"
    /\ ev.toolCallId = <<"T", "H", "I", "N", "K", "C", "H", "A", "N", "G", "E", "_",
                         "T", "I", "T", "L", "E">>
    /\ ev.name = "change_title"

\* an id with no more than cut words in it has given null
CutWordsGiveNull ==
    /\ ev.op = "extractToolNameFromId"
    /\ ev.toolCallId = <<"c", "h", "a", "n", "g", "e", "_", "t", "i", "t", "l",
                         "h", "i", "n", "k">>
    /\ ev.name = "null"

AbortWithoutSessionReturnsAtOnce ==
    [][(loop'.aborts = loop.aborts + 1
          /\ (loop.kimiBackend = NoBackend \/ loop.acpSessionId = NoSession))
          => (loop'.cancelling = loop.cancelling /\ ~loop'.aborted)]_vars

\* what the step has added to the log of the turn
Added(i) == turnLog'[Len(turnLog) + i]
AddedCount == Len(turnLog') - Len(turnLog)
IsSend(e) == e.op \in {"sendAgentMessage", "sendSessionEvent"}

\* the step in which the wait for the response ends by its timeout
WaitTimedOut ==
    /\ turnLog' # turnLog
    /\ AddedCount > 0
    /\ Added(1).op = "waitForResponseComplete"
    /\ Added(1).settled = "timeout"

InTurn(pc) == pc \in {"mc_dispose", "mc_start", "start", "send", "respond"}

\* the places of the messages of one type in a log
Sends(log, type) == {i \in 1..Len(log) : IsSend(log[i]) /\ log[i].type = type}

\* the first place of the log of the step that the step has written
NewFrom == IF ~InTurn(loop.pc) /\ InTurn(loop'.pc) THEN 1 ELSE Len(turnLog) + 1

\* C32: in every turn at most one task_started and exactly one task_complete
\* are sent, task_complete after any task_started, and no task_started is
\* sent outside a turn
C32_TaskEventsPerTurn ==
    [][turnLog' # turnLog =>
          LET started == Sends(turnLog', "task_started")
              complete == Sends(turnLog', "task_complete")
          IN /\ Cardinality(started) <= 1
             /\ Cardinality(complete) <= 1
             /\ (InTurn(loop.pc) /\ ~InTurn(loop'.pc)) => Cardinality(complete) = 1
             /\ InTurn(loop'.pc) => complete = {}
             /\ \A i \in started, j \in complete : i < j
             /\ (\E i \in started : i >= NewFrom) => InTurn(loop.pc)]_vars

\* what does hold: up to the end of its turn the log has at most one
\* task_started, and the finally block sends the one task_complete, after it
TaskEventsUpToTurnEnd ==
    [][turnLog' # turnLog =>
          LET started == Sends(turnLog', "task_started")
              complete == Sends(turnLog', "task_complete")
          IN /\ Cardinality(complete) <= 1
             /\ (InTurn(loop.pc) /\ ~InTurn(loop'.pc)) => Cardinality(complete) = 1
             /\ InTurn(loop'.pc) => complete = {} /\ Cardinality(started) <= 1
             /\ \A j \in complete : Cardinality({i \in started : i < j}) <= 1]_vars

\* a task_started has been sent after the task_complete of the last turn,
\* while the loop waits for the next prompt
TaskStartedOutsideTurn ==
    /\ loop.pc = "wait"
    /\ \E i \in Sends(turnLog, "task_complete"), j \in Sends(turnLog, "task_started") :
           i < j

\* the places of the messages that carry an assistant response
Responses(log) ==
    {i \in Sends(log, "message") :
        log[i].op = "sendAgentMessage" /\ log[i].by = "loop" /\ log[i].id # Absent}

BlankResponseNotSent ==
    /\ ~InTurn(loop.pc)
    /\ Responses(turnLog) = {}
    /\ Sends(turnLog, "task_complete") # {}
    /\ ghost.deltas = <<" ">>

\* C35: a tool call raised during a turn is decided under the permission
\* mode of the prompt of that turn, whatever user messages have been queued
\* in the meantime: in default mode a tool outside the always-auto-approve
\* set is left pending
C35_DecidedUnderModeOfTurn ==
    [][(toolCalls' # toolCalls /\ InTurn(loop.pc) /\ IsToolCall(ev')) =>
          /\ ev'.mode = loop.message.mode.permissionMode
          /\ (loop.message.mode.permissionMode = "default" /\ ~InAlwaysSet(ev'))
                => ev'.decision = "pending"]_vars

\* a write tool of a turn in default mode has been approved for the session,
\* a yolo message waiting in the queue
ToolCallDecidedUnderQueuedMode ==
    /\ IsToolCall(ev)
    /\ ev.toolName = "writeFile"
    /\ ev.decision = "approved_for_session"
    /\ loop.pc = "send"
    /\ loop.message.mode.permissionMode = "default"
    /\ messageQueue # <<>>
    /\ messageQueue[1].mode.permissionMode = "yolo"

\* the backends constructed and not yet disposed
Live(bs) == {b \in 1..Len(bs) : bs[b].state # "disposed"}

\* C36: at most one Agent Backend is live at any moment, and when a backend
\* is constructed every backend constructed before it has been disposed
C36_AtMostOneLiveBackend ==
    [][/\ Cardinality(Live(backends')) <= 1
       /\ Len(backends') > Len(backends) =>
              /\ Len(backends') = Len(backends) + 1
              /\ \A b \in 1..Len(backends) : backends'[b].state = "disposed"]_vars

\* a second backend has been constructed, the first one disposed
C36_Witness ==
    /\ Len(backends) = 2
    /\ backends[1].state = "disposed"
    /\ backends[2].state # "disposed"

\* C37: whenever no turn is in progress the thinking flag, which the
\* session-alive pings report, is false
C37_ThinkingOnlyInTurn == ~InTurn(loop.pc) => ~loop.thinking

\* what does hold: the step that ends a turn leaves the flag false
ThinkingClearedAtTurnEnd ==
    [][(InTurn(loop.pc) /\ loop'.pc \in {"wait", "cleanup"} /\ ~loop'.isProcessingMessage
          /\ loop.isProcessingMessage)
          => ~loop'.thinking]_vars

\* the flag is true while the loop waits for the next prompt, the turn before
\* having sent its task_complete
ThinkingOutsideTurn ==
    /\ loop.pc = "wait"
    /\ loop.thinking
    /\ Sends(turnLog, "task_complete") # {}

\* a step that ends a turn with an empty message queue and no exit requested
TurnEndsIdle ==
    /\ loop.isProcessingMessage
    /\ ~loop'.isProcessingMessage
    /\ messageQueue' = <<>>
    /\ ~loop'.shouldExit

ReadySentLast(log) ==
    /\ log # <<>>
    /\ log[Len(log)].op = "sendSessionEvent"
    /\ log[Len(log)].type = "ready"

\* C38: a turn that ends with an empty message queue and no exit requested
\* emits a ready event at its end, whatever the outcome of the turn
C38_ReadyAtTurnEnd == [][TurnEndsIdle => ReadySentLast(turnLog')]_vars

\* what does hold: the ready event is emitted unless the turn received only
\* whitespace as its response
ReadyAtTurnEndUnlessBlank ==
    [][(TurnEndsIdle /\ (loop.accumulatedResponse = <<>> \/ trimNonEmpty(loop.accumulatedResponse)))
          => ReadySentLast(turnLog')]_vars

\* a turn with a whitespace-only response has ended, the queue is empty, no
\* exit is requested, and no ready event was sent
NoReadyAfterBlankResponse ==
    /\ loop.pc = "wait"
    /\ messageQueue = <<>>
    /\ ~loop.shouldExit
    /\ loop.isResponseInProgress
    /\ Sends(turnLog, "task_complete") # {}
    /\ ~ReadySentLast(turnLog)

\* the preamble of the prompt sent last: what precedes the queued prompt
PreambleOf(log, l) ==
    LET prompt == log[Len(log)].prompt
    IN SubSeq(prompt, 1, Len(prompt) - Len(l.message.message))

Fragments(text) == {text[i] : i \in 1..Len(text)}

\* C39: the preamble injected on a mode-change restart does not hold the text
\* of the prompt that triggers the restart
C39_PreambleOmitsTriggeringPrompt ==
    [][(PromptSent /\ Restarted(turnLog'))
          => loop'.message.mode.originalUserMessage
                 \notin Fragments(PreambleOf(turnLog', loop'))]_vars

\* what does hold: the preamble renders the buffer as it is when the prompt is
\* sent, the entry the callback added for that prompt included
PreambleRendersBufferAtSend ==
    [][(PromptSent /\ Restarted(turnLog') /\ PreambleOf(turnLog', loop') # <<>>)
          => /\ PreambleOf(turnLog', loop') = getContextForNewSession(conversationHistory)
             /\ \E i \in 1..Len(conversationHistory) :
                    /\ conversationHistory[i].role = "user"
                    /\ conversationHistory[i].content
                           = <<loop'.message.mode.originalUserMessage>>]_vars

\* a restart has sent its prompt behind a preamble that holds the text of
\* that same prompt
PreambleHoldsTriggeringPrompt ==
    /\ loop.pc = "send"
    /\ Restarted(turnLog)
    /\ loop.message.mode.originalUserMessage \in Fragments(PreambleOf(turnLog, loop))

\* the value the named source holds for a call of the factory
ValueOfSource(source, call) ==
    CASE source = "explicit" -> call.options.model
      [] source = "env-var" -> call.env.KIMI_MODEL
      [] source = "local-config" -> call.localConfig.model
      [] OTHER -> DEFAULT_KIMI_MODEL

\* C40: the modelSource returned by createKimiBackend names the source from
\* which the returned model was taken
C40_ModelSourceNamesSource ==
    ev.op = "createKimiBackend"
       => ev.result.model = ValueOfSource(ev.result.modelSource, ev)

\* what does hold: the source is named right whenever the explicit model is
\* not null, or the local config has no model, or KIMI_MODEL is set
ModelSourceRightUnlessConfigSkipped ==
    (/\ ev.op = "createKimiBackend"
     /\ \/ ev.options.model # NullModel
        \/ ev.localConfig.model = NullModel
        \/ ev.env.KIMI_MODEL \notin {Undefined, ""})
       => ev.result.model = ValueOfSource(ev.result.modelSource, ev)

\* the model is the default although the result names the local config
DefaultModelNamedLocalConfig ==
    /\ ev.op = "createKimiBackend"
    /\ ev.options.model = NullModel
    /\ ev.result.model = DEFAULT_KIMI_MODEL
    /\ ev.result.modelSource = "local-config"
    /\ ev.localConfig.model = "c1"

\* an exit or a kill has been requested
ExitRequested == loop.shouldExit \/ loop.kill # "idle"

\* the loop waits for a prompt on a signal that is not aborted, with every
\* prompt pushed so far taken from the queue
WaitsAfresh ==
    /\ loop.pc = "wait"
    /\ ~loop.aborted
    /\ messageQueue = <<>>

\* an abort request leaves the loop where it is, with its backend, its
\* session and the mode hash it runs under
AbortKeepsSession ==
    [][loop'.aborts = loop.aborts + 1
          => /\ loop'.pc = loop.pc
             /\ loop'.kimiBackend = loop.kimiBackend
             /\ loop'.acpSessionId = loop.acpSessionId
             /\ loop'.currentModeHash = loop.currentModeHash
             /\ loop'.shouldExit = loop.shouldExit
             /\ backends' = backends]_vars

\* C20: an abort is not an error: whether it arrives while the loop waits or
\* while a turn is in flight, the loop is not left, it keeps the backend it
\* has, and unless an exit or a kill is requested it eventually waits again
\* on a signal that is not aborted, with the prompts pushed since taken up
C20_AbortLeavesSessionUsable ==
    /\ AbortKeepsSession
    /\ (loop.aborts > 0) ~> (WaitsAfresh \/ ExitRequested)

\* the same unless the loop has been left meanwhile
AbortThenWaitsUnlessLoopLeft ==
    /\ AbortKeepsSession
    /\ (loop.aborts > 0) ~> (WaitsAfresh \/ ExitRequested
                              \/ loop.pc \in {"cleanup", "exited"})

\* after an abort with a live session the loop waits on a fresh signal
AbortedThenWaiting ==
    /\ loop.aborts > 0
    /\ loop.cancelling = 0
    /\ WaitsAfresh
    /\ SessionActive

\* ------------------------------------------------------------------------
\* Claims on the Conversation History
\* ------------------------------------------------------------------------
IsHistoryEvent(e) == e.op \in {"addUserMessage", "addAssistantMessage"}

WithinBounds(h) == Len(h) <= 20 /\ totalCharacters(h) <= 50000

\* C10: after every recording the history holds at most 20 entries and at most
\* 50000 characters, and what it holds is the longest tail of the old entries
\* followed by the new one that is within both bounds (oldest evicted first).
C10_HistoryBounded ==
    [][IsHistoryEvent(ev') =>
         LET full == Append(conversationHistory, ev'.entry)
         IN \E k \in 0..Len(full) :
               /\ conversationHistory' = SubSeq(full, k + 1, Len(full))
               /\ WithinBounds(conversationHistory')
               /\ k > 0 => ~WithinBounds(SubSeq(full, k, Len(full)))]_vars

\* the 21st entry was recorded and the oldest one evicted
C10_Witness ==
    /\ IsHistoryEvent(ev)
    /\ ev.evicted = 1
    /\ Len(conversationHistory) = 20
    /\ conversationHistory[20] = ev.entry

\* several of the oldest entries were evicted to get within the character bound
EvictedForCharacters ==
    /\ IsHistoryEvent(ev)
    /\ ev.evicted > 1
    /\ conversationHistory # <<>>

====
